---- MODULE Spec2Model ----
(***************************************************************************)
(* PulseProof: the stage delegation / orchestration protocol.              *)
(*                                                                         *)
(* Two coordinators are modelled, each with its two stage workers:         *)
(*   - the phase-2 coordinator  (agents/master_orchestrator/               *)
(*     phase2_orchestrator.py) with the phase-2 event analyzer and risk    *)
(*     assessor agents;                                                    *)
(*   - the hosted-agent coordinator (uagents/master_orchestrator.py,       *)
(*     process_blockchain_event) with the hosted event analyzer and risk   *)
(*     assessor.                                                           *)
(* ctx.send_and_receive belongs to the uagents library: it is modelled as  *)
(* the environment of a call, which may hand back any reply the worker     *)
(* sent for the call, time out, or raise.                                  *)
(* Scores and confidences of the coordinators are integers in hundredths   *)
(* (0.7 is 70).                                                            *)
(*                                                                         *)
(* The scoring components are modelled beside them (SpecScoring): the      *)
(* risk engine (agents/shared/enhanced_risk_engine.py), the phase-2 risk   *)
(* assessor's handler (agents/risk_assessor/phase2_risk_assessor.py) and   *)
(* the red agent (agents-reasoning/red_agent). Their scores and            *)
(* confidences are in thousandths, weights in hundredths, next to the      *)
(* binary64 floats of the code where their rounding decides; the price,    *)
(* history and reputation providers are their environment.                 *)
(***************************************************************************)
EXTENDS Integers, Sequences, FiniteSets, TLC

VARIABLES
    deployment,    \* which program this behaviour is of: a coordinator ("phase2",
                   \* "hosted") or a scoring component (ScoringDeployments)
    agent_state,   \* phase2_orchestrator.agent_state (the fields the protocol uses)
    started,       \* has the phase-2 coordinator's startup handler run
    now,           \* wall clock in seconds, as read by datetime.now()
    p2,            \* phase-2 batch runs (analyze_events_endpoint), by run number
    hosted,        \* hosted-agent runs (process_blockchain_event), by run number
    calls,         \* one entry per (coordinator, run, stage): the delegation's
                   \* request, the worker's replies in sending order, its outcome
    probed,        \* per role, what the health probe of the startup check did
    agent_errors,  \* AgentError messages delivered to the phase-2 coordinator
    engine,        \* EnhancedRiskEngine: its caches and its last assessment
    risk_out,      \* the phase-2 risk assessor: its agent_state and the runs of
                   \* its handler, with what each has sent
    red_out        \* the red agent: its PoC counter and the runs of
                   \* /analyze-events, with what each has gathered

vars == <<deployment, agent_state, started, now, p2, hosted, calls, probed,
          agent_errors, engine, risk_out, red_out>>

\* the state of the scoring components, which the coordinators never touch
analysis_vars == <<engine, risk_out, red_out>>

\* ------------------------------------------------------------------ bounds
MaxBatches == 1
MaxEvents == 2
MaxTime == 1
MaxHostedRuns == 1
MaxRiskEvents == 2
MaxRedEvents == 2
MaxClock == 600
MaxSequence == 2        \* batches a coordinator handles one after another
MaxAgentErrors == 2     \* AgentError messages the coordinator is sent unasked
MaxAssessorRuns == 2    \* runs of the risk assessor's handler that overlap
MaxRedRuns == 2         \* requests the red agent works on at a time
MaxUlps == 4            \* floats between a score and the float of its decimal

\* ------------------------------------------------------------ vocabulary
Roles == {"event_analyzer", "risk_assessor"}

\* models.EventType members used as inputs
EventTypes == {"Transfer", "Approval"}

\* Python's None, and the absence of a message
None == [type |-> "None"]

RunsP2 == 1..MaxBatches
RunsHosted == 1..MaxHostedRuns

\* the runs of the risk assessor's handler and of the red agent's endpoint
AssessorRuns == 1..MaxAssessorRuns
RedRuns == 1..MaxRedRuns

CallIds == ({"p2"} \X RunsP2 \X Roles) \cup ({"hosted"} \X RunsHosted \X Roles)

RECURSIVE SeqsUpTo(_, _)
\* all sequences over S of length at most n
SeqsUpTo(S, n) ==
    IF n = 0 THEN {<<>>}
    ELSE LET shorter == SeqsUpTo(S, n - 1)
         IN shorter \cup {Append(s, x) : s \in {t \in shorter : Len(t) = n - 1}, x \in S}

\* the batches a client may POST to /analyze-events (models.EventAnalysisRequest.events)
Batches == SeqsUpTo(EventTypes, MaxEvents)

\* Python: key in dict
HasKey(d, k) == k \in DOMAIN d

\* ------------------------------------------------- phase-2 agent_state
\* phase2_orchestrator.py:59-84
agent_state_init ==
    [ events_processed |-> 0,
      high_risk_events |-> 0,
      critical_events |-> 0,
      sub_agents |-> [event_analyzer |-> "None", risk_assessor |-> "None"],
      delegation_stats |->
          [ event_analyzer_calls |-> 0, risk_assessor_calls |-> 0,
            successful_delegations |-> 0, failed_delegations |-> 0 ],
      agent_health |-> [event_analyzer |-> "unknown", risk_assessor |-> "unknown"],
      communication_stats |->
          [ requests_received |-> 0, responses_sent |-> 0,
            errors_handled |-> 0, timeouts |-> 0 ] ]

\* agent_state["communication_stats"][k] += 1
bump_communication_stat(st, k) ==
    [st EXCEPT !.communication_stats = [@ EXCEPT ![k] = @ + 1]]

\* agent_state["delegation_stats"][k] += 1
bump_delegation_stat(st, k) ==
    [st EXCEPT !.delegation_stats = [@ EXCEPT ![k] = @ + 1]]

\* The names bound in phase2_orchestrator's module namespace by its imports
\* (lines 19-39): what a bare name in a function body can resolve to.
orchestrator_imports ==
    { "CandidateEvent", "ProcessedEvent", "EventAnalysisRequest",
      "EventAnalysisResponse", "EventAcknowledgment", "HealthResponse",
      "StatsResponse", "AgentEventAnalysisRequest", "EventAnalysisResult",
      "RiskAssessmentResult", "OrchestratorRequest", "OrchestratorResponse",
      "AgentHealthCheck", "AgentHealthResponse", "AgentError",
      "AgentAcknowledgment", "discovery_service" }

\* does a bare name resolve in phase2_orchestrator (else NameError)
name_resolves(n) == n \in orchestrator_imports

\* ------------------------------------------------------ phase-2 startup
\* check_agent_health, one role (lines 135-165). probe is what the health
\* send_and_receive did: "ok" (success with an AgentHealthResponse), "bad"
\* (any other return) or "raise".
check_agent_health(address, probe) ==
    IF address # "None"
    THEN IF probe = "raise" THEN "unreachable"
         ELSE IF probe = "ok" THEN "healthy"
         ELSE "unhealthy"
    ELSE "not_found"

Probes == {"ok", "bad", "raise"}

\* the roles in the order agent_state["sub_agents"] lists them (lines 74-77)
RoleOrder == <<"event_analyzer", "risk_assessor">>

\* the place of a role in RoleOrder
role_index(role) == CHOOSE i \in 1..Len(RoleOrder) : RoleOrder[i] = role

\* check_agent_health, the loop over the roles (lines 134-165), from role
\* number i on up to its next await: a role without address is marked
\* not_found (lines 163-165), for the first role with an address the health
\* check is sent and its answer awaited (line 144). acc.probed keeps for
\* every role what was done about its probe: "not_sent", "awaiting", or
\* what the probe did.
RECURSIVE check_all_agents_health(_, _, _)
check_all_agents_health(i, sub_agents, acc) ==
    IF i > Len(RoleOrder) THEN acc
    ELSE LET role == RoleOrder[i]
         IN IF sub_agents[role] # "None"
            THEN [acc EXCEPT !.probed = [@ EXCEPT ![role] = "awaiting"]]
            ELSE check_all_agents_health(
                     i + 1, sub_agents,
                     [health |-> [acc.health EXCEPT ![role] =
                                     check_agent_health(sub_agents[role], "none")],
                      probed |-> [acc.probed EXCEPT ![role] = "not_sent"]])

\* A loop without the per-role try/except: a probe that raises ends the
\* loop, the role it was for and the roles after it keep what they had.
health_probe_returns_aborting(role, sub_agents, probe, acc) ==
    IF probe = "raise"
    THEN [acc EXCEPT !.probed = [@ EXCEPT ![role] = "raise"]]
    ELSE check_all_agents_health(
             role_index(role) + 1, sub_agents,
             [health |-> [acc.health EXCEPT ![role] =
                             check_agent_health(sub_agents[role], probe)],
              probed |-> [acc.probed EXCEPT ![role] = probe]])

\* check_agent_health from the return of the health check of a role (line
\* 144) to the next await or the end of the loop: the role's health is
\* written (lines 151-161) and the loop goes on with the roles after it,
\* whatever the probe did.
health_probe_returns(role, sub_agents, probe, acc) ==
    check_all_agents_health(
        role_index(role) + 1, sub_agents,
        [health |-> [acc.health EXCEPT ![role] =
                        check_agent_health(sub_agents[role], probe)],
         probed |-> [acc.probed EXCEPT ![role] = probe]])

\* ------------------------------------------------ phase-2 responses
\* create_error_response (lines 364-376)
create_error_response(request_id, error_message) ==
    [ kind |-> "returned",
      status |-> "error",
      acknowledgment |->
          [ request_id |-> request_id, events_received |-> 0, status |-> "error",
            message |-> error_message, processing_started |-> FALSE ],
      summary |-> [error |-> error_message] ]

\* an exception that left analyze_events_endpoint
raised_response(exc) ==
    [ kind |-> "raised",
      status |-> exc,
      acknowledgment |-> None,
      summary |-> None ]

no_response == [kind |-> "none", status |-> "", acknowledgment |-> None, summary |-> None]

RECURSIVE count_high_risk(_)
\* sum(1 for ra in risk_assessments if ra["risk_score"] >= 0.7)   (line 353)
count_high_risk(ras) ==
    IF ras = <<>> THEN 0
    ELSE (IF Head(ras).risk_score >= 70 THEN 1 ELSE 0) + count_high_risk(Tail(ras))

\* synthesize_results (lines 351-362)
synthesize_results(event_analysis_result, risk_assessment_result) ==
    [ high_risk_count |-> count_high_risk(risk_assessment_result.risk_assessments),
      critical_count |-> Len(risk_assessment_result.critical_events),
      recommendations |-> risk_assessment_result.recommendations,
      patterns_detected |-> Len(event_analysis_result.patterns_detected),
      overall_confidence |->
          (event_analysis_result.confidence_score
             + risk_assessment_result.confidence_score) \div 2 ]

\* The except clause of analyze_events_endpoint (lines 247-251). Its first
\* statement increments communication_stats["failed_delegations"]; the key
\* lives in delegation_stats, so the increment raises KeyError and the
\* exception leaves the operation.
analyze_events_except(st, request_id, message) ==
    IF ~HasKey(st.communication_stats, "failed_delegations")
    THEN [st |-> st, response |-> raised_response("KeyError")]
    ELSE [ st |-> bump_communication_stat(
                      bump_communication_stat(st, "failed_delegations"),
                      "errors_handled"),
           response |-> create_error_response(request_id, message) ]

\* Lines 203-245: synthesis, statistics, the success response. Lines 208-210
\* are executed before line 211, whose key "successful_delegations" is not
\* in communication_stats either (KeyError, handled by the except clause).
analyze_events_success(st, n_events, request_id, ev, risk) ==
    LET syn == synthesize_results(ev, risk)
        st1 == [st EXCEPT !.events_processed = @ + n_events,
                          !.high_risk_events = @ + syn.high_risk_count,
                          !.critical_events = @ + syn.critical_count]
    IN IF ~HasKey(st1.communication_stats, "successful_delegations")
       THEN analyze_events_except(st1, request_id,
                                  "Real multi-agent processing failed")
       ELSE [ st |-> bump_communication_stat(st1, "successful_delegations"),
              response |->
                  [ kind |-> "returned",
                    status |-> "success",
                    acknowledgment |->
                        [ request_id |-> request_id, events_received |-> n_events,
                          status |-> "processed", message |-> "Successfully processed",
                          processing_started |-> TRUE ],
                    summary |->
                        [ total_events |-> n_events,
                          processed_events |-> Len(ev.processed_events),
                          high_risk_events |-> syn.high_risk_count,
                          critical_events |-> syn.critical_count,
                          recommendations |-> syn.recommendations,
                          request_id |-> request_id ] ] ]

\* --------------------------------------------------------- delegations
\* The history of one delegation (one stage of one run).
no_call ==
    [ state |-> "none",        \* none | awaiting | returned
      sends |-> 0,             \* requests sent to the worker for this delegation
      request |-> None,        \* the request sent
      handled |-> FALSE,       \* a handler of the worker ran on the request
      failed |-> FALSE,        \* ... and took its except path
      replies |-> <<>>,        \* what the worker sent back, in sending order
      seen_health |-> None,    \* agent_health when the delegate was entered
      left_health |-> None,    \* agent_health when the pre-flight part was left
      status |-> "none",       \* success | timeout | unhealthy | error
      got |-> "none" ]         \* what send_and_receive did: timeout | raise |
                               \* the type of the message it handed back

\* The reply model each delegate passes as response_type (lines 280, 329;
\* uagents/master_orchestrator.py:92,130)
response_type(stage) ==
    IF stage = "event_analyzer" THEN "EventAnalysisResult" ELSE "RiskAssessmentResult"

\* Variant of delegate_except in which a delegate lets its exception go on to
\* its caller.
delegate_reraises(st) ==
    [ act |-> "raise", status |-> "error", exc |-> TRUE, result |-> None,
      request |-> None, st |-> st ]

\* The except clause of both phase-2 delegates (lines 296-299, 346-349):
\* the exception is counted and swallowed, the delegate returns None.
delegate_except(st) ==
    [ act |-> "return_none", status |-> "error", exc |-> TRUE, result |-> None,
      request |-> None, st |-> bump_communication_stat(st, "errors_handled") ]

\* Variant of delegate_to_event_analyzer_pre without the health pre-flight.
delegate_to_event_analyzer_unchecked(st, events, request_id) ==
    IF st.sub_agents.event_analyzer = "None"
    THEN [ act |-> "return_none", status |-> "unhealthy", exc |-> FALSE,
           result |-> None, request |-> None, st |-> st ]
    ELSE [ act |-> "send", status |-> "none", exc |-> FALSE, result |-> None,
           request |-> [ type |-> "EventAnalysisRequest",
                         candidate_events |-> events,
                         request_id |-> request_id,
                         priority |-> "normal" ],
           st |-> st ]

\* delegate_to_event_analyzer up to its send_and_receive (lines 255-282)
delegate_to_event_analyzer_pre(st, events, request_id) ==
    IF st.agent_health.event_analyzer # "healthy"
    THEN [ act |-> "return_none", status |-> "unhealthy", exc |-> FALSE,
           result |-> None, request |-> None, st |-> st ]
    ELSE IF st.sub_agents.event_analyzer = "None"
    THEN [ act |-> "return_none", status |-> "unhealthy", exc |-> FALSE,
           result |-> None, request |-> None, st |-> st ]
    ELSE [ act |-> "send", status |-> "none", exc |-> FALSE, result |-> None,
           request |-> [ type |-> "EventAnalysisRequest",
                         candidate_events |-> events,
                         request_id |-> request_id,
                         priority |-> "normal" ],
           st |-> st ]

\* delegate_to_risk_assessor up to its send_and_receive (lines 303-331).
\* Line 310 names RiskAssessmentRequest, which the module never imports.
delegate_to_risk_assessor_pre(st, event_analysis_result, request_id) ==
    IF st.agent_health.risk_assessor # "healthy"
    THEN [ act |-> "return_none", status |-> "unhealthy", exc |-> FALSE,
           result |-> None, request |-> None, st |-> st ]
    ELSE IF ~name_resolves("RiskAssessmentRequest")
    THEN delegate_except(st)
    ELSE IF st.sub_agents.risk_assessor = "None"
    THEN [ act |-> "return_none", status |-> "unhealthy", exc |-> FALSE,
           result |-> None, request |-> None, st |-> st ]
    ELSE [ act |-> "send", status |-> "none", exc |-> FALSE, result |-> None,
           request |-> [ type |-> "RiskAssessmentRequest",
                         processed_events |-> event_analysis_result.processed_events,
                         patterns_detected |-> event_analysis_result.patterns_detected,
                         request_id |-> request_id,
                         priority |-> "normal" ],
           st |-> st ]

\* Variant of delegate_post with a circuit breaker: a delegation that does
\* not succeed marks its worker unhealthy.
delegate_post_marking_unhealthy(stage, st, outcome) ==
    IF outcome.kind = "raise"
    THEN delegate_except([st EXCEPT !.agent_health[stage] = "unhealthy"])
    ELSE IF outcome.kind = "reply" /\ outcome.msg.type = response_type(stage)
    THEN [ act |-> "return", status |-> "success", exc |-> FALSE,
           result |-> outcome.msg, request |-> None,
           st |-> bump_delegation_stat(st,
                     IF stage = "event_analyzer" THEN "event_analyzer_calls"
                     ELSE "risk_assessor_calls") ]
    ELSE [ act |-> "return_none",
           status |-> IF outcome.kind = "timeout" THEN "timeout" ELSE "error",
           exc |-> FALSE, result |-> None, request |-> None,
           st |-> bump_communication_stat(
                      [st EXCEPT !.agent_health[stage] = "unhealthy"], "timeouts") ]

\* Both delegates from the return of send_and_receive on (lines 284-299,
\* 333-349). outcome is what send_and_receive did: [kind |-> "reply", msg],
\* [kind |-> "timeout"] (no response, status not "success") or
\* [kind |-> "raise"].
delegate_post(stage, st, outcome) ==
    IF outcome.kind = "raise" THEN delegate_except(st)
    ELSE IF outcome.kind = "reply" /\ outcome.msg.type = response_type(stage)
    THEN [ act |-> "return", status |-> "success", exc |-> FALSE,
           result |-> outcome.msg, request |-> None,
           st |-> bump_delegation_stat(st,
                     IF stage = "event_analyzer" THEN "event_analyzer_calls"
                     ELSE "risk_assessor_calls") ]
    ELSE [ act |-> "return_none",
           status |-> IF outcome.kind = "timeout" THEN "timeout" ELSE "error",
           exc |-> FALSE, result |-> None, request |-> None,
           st |-> bump_communication_stat(st, "timeouts") ]

\* Config.MAX_RETRIES (shared/config.py:58)
MAX_RETRIES == 3

\* Variant of retry_on_failure in which a failed delegation is attempted
\* again, up to Config.MAX_RETRIES requests.
retry_up_to_max_retries(stage, attempts) == attempts < MAX_RETRIES

\* Neither coordinator loops around a delegation: after a failed attempt the
\* delegate returns (phase-2 lines 291-299, 341-349) or the fallback is taken
\* (uagents/master_orchestrator.py:101-112, 139-149). Config.MAX_RETRIES
\* exists but nothing reads it.
retry_on_failure(stage, attempts) == FALSE

\* Variant of after_risk_assessor that counts the events of a batch whose
\* risk assessment failed, and which nobody assessed, as critical events,
\* without counting them as processed.
after_risk_assessor_counting_unassessed(d, events, request_id, event_analysis_result) ==
    IF d.act = "raise"
    THEN analyze_events_except(d.st, request_id, "Real multi-agent processing failed")
    ELSE IF d.act = "return_none"
    THEN [ st |-> [d.st EXCEPT !.critical_events = @ + Len(events)],
           response |-> create_error_response(request_id, "Risk assessment failed") ]
    ELSE analyze_events_success(d.st, Len(events), request_id,
                                event_analysis_result, d.result)

\* analyze_events_endpoint from the return of delegate_to_risk_assessor to
\* its own return (lines 200-251). d is what the delegate did.
after_risk_assessor(d, events, request_id, event_analysis_result) ==
    IF d.act = "raise"
    THEN analyze_events_except(d.st, request_id, "Real multi-agent processing failed")
    ELSE IF d.act = "return_none"
    THEN [st |-> d.st, response |-> create_error_response(request_id, "Risk assessment failed")]
    ELSE analyze_events_success(d.st, Len(events), request_id,
                                event_analysis_result, d.result)

\* analyze_events_endpoint from the return of delegate_to_event_analyzer to
\* the next await or return (lines 193-201). d is what the delegate did;
\* risk is what delegate_to_risk_assessor did before its await, None when it
\* was not called.
after_event_analyzer(d, events, request_id) ==
    IF d.act = "raise"
    THEN LET h == analyze_events_except(d.st, request_id,
                                        "Real multi-agent processing failed")
         IN [pc |-> "done", st |-> h.st, response |-> h.response, risk |-> None]
    ELSE IF d.act = "return_none"
    THEN [ pc |-> "done", st |-> d.st,
           response |-> create_error_response(request_id, "Event analysis failed"),
           risk |-> None ]
    ELSE LET pre == delegate_to_risk_assessor_pre(d.st, d.result, request_id)
         IN IF pre.act = "send"
            THEN [ pc |-> "await_risk_assessor", st |-> pre.st,
                   response |-> no_response, risk |-> pre ]
            ELSE LET fin == after_risk_assessor(pre, events, request_id, d.result)
                 IN [ pc |-> "done", st |-> fin.st, response |-> fin.response,
                      risk |-> pre ]

\* ------------------------------------------- phase-2 event analyzer agent
\* What super() reaches from EnhancedEventProcessor: the class is declared
\* without a base class (enhanced_event_processor.py:17, the EventProcessor
\* import is commented out at line 13), so only object's methods.
super_methods == {"__init__"}

\* EnhancedEventProcessor.preprocess_event (lines 51-108): both the body and
\* the fallback of its except clause call super().preprocess_event, an
\* AttributeError when super() has no such method. With a base class the
\* event would be passed on with the assessment added to its parsed_data
\* (line 87; not reachable as the code stands).
preprocess_event(candidate_event) ==
    IF "preprocess_event" \in super_methods
    THEN [ raised |-> FALSE,
           event |-> [ event_type |-> candidate_event, suspicion_level |-> 0,
                       risk_factors |-> <<>>,
                       parsed_data |-> [enhanced_risk_assessment |-> TRUE] ] ]
    ELSE [raised |-> TRUE, event |-> None]

RECURSIVE data_quality_boost(_, _)
\* the loop of lines 328-332: 0.05 for every event whose parsed_data is not
\* empty, from event number i on
data_quality_boost(processed_events, i) ==
    IF i > Len(processed_events) THEN 0
    ELSE (IF DOMAIN processed_events[i].parsed_data # {} THEN 5 ELSE 0)
             + data_quality_boost(processed_events, i + 1)

\* calculate_confidence_score (phase2_event_analyzer.py:314-337), in
\* hundredths
calculate_confidence_score(processed_events, patterns_detected) ==
    IF processed_events = <<>> THEN 0
    ELSE LET pattern_boost == IF Len(patterns_detected) * 10 < 30
                              THEN Len(patterns_detected) * 10 ELSE 30
             confidence == 70 + pattern_boost + data_quality_boost(processed_events, 1)
         IN IF confidence < 100 THEN confidence ELSE 100

\* handle_event_analysis_request (phase2_event_analyzer.py:94-209): what the
\* handler sends to the sender, in order, and whether it took its except path.
handle_event_analysis_request(msg) ==
    LET acknowledgment ==
            [ type |-> "AgentAcknowledgment", request_id |-> msg.request_id,
              status |-> "processing" ]
        n == Len(msg.candidate_events)
        pre == [i \in 1..n |-> preprocess_event(msg.candidate_events[i])]
    IN IF \E i \in 1..n : pre[i].raised
       THEN [ failed |-> TRUE,
              replies |->
                  << acknowledgment,
                     [ type |-> "EventAnalysisResult",
                       processed_events |-> <<>>,
                       patterns_detected |-> <<>>,
                       analysis_summary |-> "error",
                       request_id |-> msg.request_id,
                       confidence_score |-> 0 ],
                     [ type |-> "AgentError", error_type |-> "processing_error",
                       request_id |-> msg.request_id ] >> ]
       ELSE LET processed_events == [i \in 1..n |-> pre[i].event]
            IN [ failed |-> FALSE,
                 replies |->
                     << acknowledgment,
                        [ type |-> "EventAnalysisResult",
                          processed_events |-> processed_events,
                          patterns_detected |-> <<>>,
                          analysis_summary |-> "summary",
                          request_id |-> msg.request_id,
                          confidence_score |->
                              calculate_confidence_score(processed_events, <<>>) ] >> ]

\* The message models each phase-2 worker registers an on_message handler for
\* (phase2_event_analyzer.py:94,211; phase2_risk_assessor.py:99,237)
phase2_handlers(role) ==
    IF role = "event_analyzer"
    THEN {"EventAnalysisRequest", "AgentHealthCheck"}
    ELSE {"EventAnalysisResult", "AgentHealthCheck"}

\* ---------------------------------------------- hosted-agent pipeline
\* EventInput.contractAddress values (uagents/event_analyzer.py:5-13): a
\* well-formed address and a malformed one
ContractAddresses == {"0xa0b86a33e6c0c0c0c0c0c0c0c0c0c0c0c0c0c0c0", "0xdemo"}

\* len(contract_address)
address_len(a) == IF a = "0xa0b86a33e6c0c0c0c0c0c0c0c0c0c0c0c0c0c0c0" THEN 42 ELSE 6

\* the EventInput values a client may submit
HostedEvents == [eventType : EventTypes, contractAddress : ContractAddresses]

\* handle_event_analysis (uagents/event_analyzer.py:36-87). The module does
\* not import json, so json.loads is a NameError that the bare except at
\* line 47 swallows: metadata stays {} and topics is the empty list.
\* fault: an exception was raised in the try body before the result was sent;
\* the except clause (lines 76-87) then sends a result of the same model.
handle_event_analysis(msg, fault) ==
    LET topics == <<>>
        anomaly_detected ==
            IF msg.event.eventType = "Transfer" THEN Len(topics) > 4 ELSE FALSE
    IN [ failed |-> fault,
         replies |->
             << [ type |-> "EventAnalysisResult",
                  request_id |-> msg.request_id,
                  event_type |-> msg.event.eventType,
                  contract_address |-> msg.event.contractAddress,
                  analysis |-> IF fault THEN "Error in analysis" ELSE "Analyzed",
                  anomaly_detected |-> IF fault THEN FALSE ELSE anomaly_detected ] >> ]

\* handle_risk_assessment (uagents/risk_assessor.py:32-97). fault: an
\* exception was raised in the try body before the result was sent; the
\* except clause (lines 87-97) then sends a result of the same model with
\* risk_level "ERROR".
handle_risk_assessment(msg, fault) ==
    LET event_analysis == msg.event_analysis
        f1 == IF event_analysis.anomaly_detected
              THEN <<"Anomaly detected in event analysis">> ELSE <<>>
        f2 == IF event_analysis.event_type = "Transfer"
              THEN <<"Transfer event detected">> ELSE <<>>
        f3 == IF address_len(event_analysis.contract_address) # 42
              THEN <<"Invalid contract address format">> ELSE <<>>
        sum == 10 + (IF f1 # <<>> THEN 40 ELSE 0) + (IF f2 # <<>> THEN 20 ELSE 0)
                  + (IF f3 # <<>> THEN 30 ELSE 0)
        risk_score == IF sum < 100 THEN sum ELSE 100
        risk_level == IF risk_score < 30 THEN "LOW"
                      ELSE IF risk_score < 70 THEN "MEDIUM" ELSE "HIGH"
    IN IF fault
       THEN [ failed |-> TRUE,
              replies |->
                  << [ type |-> "RiskAssessmentResult",
                       request_id |-> msg.request_id,
                       risk_level |-> "ERROR",
                       risk_score |-> 0,
                       risk_factors |-> <<"Error in assessment">>,
                       recommendation |-> "Unable to assess risk due to error" ] >> ]
       ELSE [ failed |-> FALSE,
              replies |->
                  << [ type |-> "RiskAssessmentResult",
                       request_id |-> msg.request_id,
                       risk_level |-> risk_level,
                       risk_score |-> risk_score,
                       risk_factors |-> f1 \o f2 \o f3,
                       recommendation |-> risk_level ] >> ]

\* process_blockchain_event, the fallback analysis (lines 105-112)
fallback_analysis(event_input, request_id) ==
    [ type |-> "EventAnalysisResult",
      request_id |-> request_id,
      event_type |-> event_input.eventType,
      contract_address |-> event_input.contractAddress,
      analysis |-> "Fallback analysis",
      anomaly_detected |-> FALSE ]

\* process_blockchain_event, the fallback risk assessment (lines 143-149)
fallback_risk(request_id) ==
    [ type |-> "RiskAssessmentResult",
      request_id |-> request_id,
      risk_level |-> "MEDIUM",
      risk_score |-> 50,
      risk_factors |-> <<"Fallback assessment - hosted agent unavailable">>,
      recommendation |-> "Unable to perform full risk assessment" ]

\* the milliseconds a run may have taken when it compiles its response
\* (time.time() at lines 70 and 152): two of the readings of the clock
ProcessingTimes == {60000, 60007}

\* the status of a hosted delegation, from what send_and_receive did
hosted_status(stage, outcome) ==
    IF outcome.kind = "reply" /\ outcome.msg.type = response_type(stage) THEN "success"
    ELSE IF outcome.kind = "timeout" THEN "timeout"
    ELSE "error"

\* process_blockchain_event, step 1 (lines 79-94): the request to the event analyzer
hosted_analysis_request(event_input, request_id) ==
    [type |-> "EventAnalysisRequest", event |-> event_input, request_id |-> request_id]

\* Variant of hosted_after_event_analyzer in which the risk request is built
\* from the fallback analysis whatever the event analyzer replied.
hosted_after_event_analyzer_stale(outcome, event_input, request_id) ==
    [ analysis_response |->
          IF hosted_status("event_analyzer", outcome) = "success"
          THEN outcome.msg
          ELSE fallback_analysis(event_input, request_id),
      risk_request |->
          [ type |-> "RiskAssessmentRequest",
            event_analysis |-> fallback_analysis(event_input, request_id),
            request_id |-> request_id ] ]

\* process_blockchain_event from the return of the first send_and_receive to
\* the second (lines 96-132): the analysis kept, and the risk request built
\* from it.
hosted_after_event_analyzer(outcome, event_input, request_id) ==
    LET analysis_response ==
            IF hosted_status("event_analyzer", outcome) = "success"
            THEN outcome.msg
            ELSE fallback_analysis(event_input, request_id)
    IN [ analysis_response |-> analysis_response,
         risk_request |->
             [ type |-> "RiskAssessmentRequest",
               event_analysis |-> analysis_response,
               request_id |-> request_id ] ]

\* Variant of hosted_after_risk_assessor in which a failed risk delegation
\* is not caught next to the call: it reaches the handler of the whole
\* function, which returns the error response (lines 175-185).
hosted_after_risk_assessor_aborting(outcome, event_input, request_id, analysis_response, processing_time) ==
    IF hosted_status("risk_assessor", outcome) = "success"
    THEN [ kind |-> "returned",
           event_analysis |->
               [ event_type |-> analysis_response.event_type,
                 contract_address |-> analysis_response.contract_address,
                 analysis |-> analysis_response.analysis,
                 anomaly_detected |-> analysis_response.anomaly_detected ],
           risk_assessment |->
               [ risk_level |-> outcome.msg.risk_level,
                 risk_score |-> outcome.msg.risk_score,
                 risk_factors |-> outcome.msg.risk_factors,
                 recommendation |-> outcome.msg.recommendation ],
           overall_status |-> "SUCCESS",
           processing_time_ms |-> processing_time ]
    ELSE [ kind |-> "returned",
           event_analysis |-> [error |-> "Failed to analyze event"],
           risk_assessment |->
               [error |-> "Risk assessment not performed due to analysis failure"],
           overall_status |-> "ERROR",
           processing_time_ms |-> processing_time ]

\* process_blockchain_event from the return of the second send_and_receive
\* to the return (lines 134-173). processing_time is what
\* int((time.time() - start_time) * 1000) gives at line 152.
hosted_after_risk_assessor(outcome, event_input, request_id, analysis_response, processing_time) ==
    LET risk_response ==
            IF hosted_status("risk_assessor", outcome) = "success"
            THEN outcome.msg
            ELSE fallback_risk(request_id)
    IN [ kind |-> "returned",
         event_analysis |->
             [ event_type |-> analysis_response.event_type,
               contract_address |-> analysis_response.contract_address,
               analysis |-> analysis_response.analysis,
               anomaly_detected |-> analysis_response.anomaly_detected ],
         risk_assessment |->
             [ risk_level |-> risk_response.risk_level,
               risk_score |-> risk_response.risk_score,
               risk_factors |-> risk_response.risk_factors,
               recommendation |-> risk_response.recommendation ],
         overall_status |-> "SUCCESS",
         processing_time_ms |-> processing_time ]

\* ------------------------------------------------- EnhancedRiskEngine
\* agents/shared/enhanced_risk_engine.py. In this part scores, confidences
\* and score thresholds are integers in thousandths (0.6 is 600), weights
\* are in hundredths (0.35 is 35), token amounts are whole tokens (the
\* code's amount / 10**18), approval amounts are in units of 10**24, USD
\* values and prices are whole dollars. The code's numbers are floats: a
\* component's score or confidence s stands for the float of the decimal
\* s / 1000, moved by score_ulps (confidence_ulps) floats where the code's
\* arithmetic leaves it beside that float (a record without the field is at
\* it). An overall score or confidence q stands for a float that is at least
\* the float of q / 1000 and below the float of (q + 1) / 1000, so that
\* q >= t holds exactly when the code's float is at least the float of the
\* threshold t / 1000.

Min(a, b) == IF a < b THEN a ELSE b
Max(a, b) == IF a > b THEN a ELSE b

\* a local variable of the code: value is computed once, rest goes on with it
Bind(value, rest(_)) == rest(value)

\* ------------------------------------------------ binary64 arithmetic
\* The engine's scores, weights and confidences are Python floats (IEEE 754
\* binary64, round to nearest, ties to even). Where the code compares two
\* of them, or one with a threshold, the rounding of its additions,
\* products and quotients can decide: 0.4 + 0.2 is 0.6000000000000001, and
\* a weighted score that is 0.5 in exact arithmetic comes out as
\* 0.49999999999999994. The operators below compute on the floats
\* themselves. A float x with 0 <= x < 2**15 is the sequence of the six
\* digits of x * 2**75 in base 2**15, least significant first; that is
\* exact for every binary64 from 2**-22 up (a smaller one would need more
\* digits), and the values of the engine are 0 or at least 0.0001.

LimbBase == 2^15

zeros(n) == SubSeq(<<0, 0, 0, 0, 0, 0, 0, 0, 0, 0, 0, 0>>, 1, n)

\* 2**q as n digits
power_of_two(q, n) ==
    [i \in 1..n |-> IF i = (q \div 15) + 1 THEN 2^(q % 15) ELSE 0]

\* the position of the highest bit that is set, -1 for zero
msb(x) ==
    IF \A i \in 1..Len(x) : x[i] = 0 THEN -1
    ELSE LET top == CHOOSE i \in 1..Len(x) : x[i] # 0 /\ \A j \in (i + 1)..Len(x) : x[j] = 0
             bits == CHOOSE b \in 1..15 : x[top] < 2^b /\ x[top] >= 2^(b - 1)
         IN 15 * (top - 1) + bits - 1

\* the position of the last of the 53 bits a binary64 keeps of a value
\* whose highest bit is at msb(x)
ulp_position(x) == msb(x) - 52

\* a < b
less(a, b) ==
    \E i \in 1..Len(a) : a[i] < b[i] /\ \A j \in (i + 1)..Len(a) : a[j] = b[j]

RECURSIVE add_limbs(_, _, _, _)
add_limbs(a, b, i, carry) ==
    IF i > Len(a) THEN <<>>
    ELSE <<(a[i] + b[i] + carry) % LimbBase>>
             \o add_limbs(a, b, i + 1, (a[i] + b[i] + carry) \div LimbBase)

\* a - b, for a >= b
RECURSIVE subtract_limbs(_, _, _, _)
subtract_limbs(a, b, i, borrow) ==
    IF i > Len(a) THEN <<>>
    ELSE <<(LimbBase + a[i] - b[i] - borrow) % LimbBase>>
             \o subtract_limbs(a, b, i + 1,
                               IF a[i] - b[i] - borrow < 0 THEN 1 ELSE 0)

\* a times one digit
RECURSIVE scale_limbs(_, _, _, _)
scale_limbs(a, d, i, carry) ==
    IF i > Len(a) THEN <<carry>>
    ELSE <<(a[i] * d + carry) % LimbBase>>
             \o scale_limbs(a, d, i + 1, (a[i] * d + carry) \div LimbBase)

\* a times the digits of b from digit j on, as Len(a) + Len(b) digits
RECURSIVE multiply_limbs(_, _, _)
multiply_limbs(a, b, j) ==
    IF j > Len(b) THEN zeros(Len(a) + Len(b))
    ELSE IF b[j] = 0 THEN multiply_limbs(a, b, j + 1)
    ELSE add_limbs(zeros(j - 1) \o scale_limbs(a, b[j], 1, 0) \o zeros(Len(b) - j),
                   multiply_limbs(a, b, j + 1), 1, 0)

\* round to nearest, ties to even: x, and whether something non-zero lies
\* below its last digit, to the 53 bits a binary64 keeps
round_to_binary64(x, sticky) ==
    IF ulp_position(x) < 1 THEN x
    ELSE LET q == ulp_position(x)
             at == (q \div 15) + 1
             half_at == ((q - 1) \div 15) + 1
             half == (x[half_at] \div 2^((q - 1) % 15)) % 2 = 1
             rest == \/ sticky
                     \/ x[half_at] % 2^((q - 1) % 15) # 0
                     \/ \E j \in 1..(half_at - 1) : x[j] # 0
             odd == (x[at] \div 2^(q % 15)) % 2 = 1
             truncated == [i \in 1..Len(x) |->
                              IF i < at THEN 0
                              ELSE IF i = at THEN x[i] - (x[i] % 2^(q % 15))
                              ELSE x[i]]
         IN IF half /\ (rest \/ odd)
            THEN add_limbs(truncated, power_of_two(q, Len(x)), 1, 0)
            ELSE truncated

\* the digits of rem / d below the point, from digit i down, and what is
\* left of rem after them
RECURSIVE divide_limbs(_, _, _)
divide_limbs(rem, d, i) ==
    IF i = 0 THEN <<>>
    ELSE divide_limbs((rem * LimbBase) % d, d, i - 1) \o <<(rem * LimbBase) \div d>>

RECURSIVE remainder_after(_, _, _)
remainder_after(rem, d, i) ==
    IF i = 0 THEN rem ELSE remainder_after((rem * LimbBase) % d, d, i - 1)

\* the float of a decimal literal k / d, as float('0.35') is of 35 / 100
binary64(k, d) ==
    round_to_binary64(divide_limbs(k % d, d, 5) \o <<k \div d>>,
                      remainder_after(k % d, d, 5) # 0)

\* a + b and a * b as the floats Python computes
binary64_plus(a, b) == round_to_binary64(add_limbs(a, b, 1, 0), FALSE)

round_product(p) ==
    round_to_binary64(SubSeq(p, 6, 11), \E i \in 1..5 : p[i] # 0)

binary64_times(a, b) == round_product(multiply_limbs(a, b, 1))

\* the next float above x, and the next below
successor(x) == add_limbs(x, power_of_two(ulp_position(x), Len(x)), 1, 0)

predecessor(x) ==
    subtract_limbs(x, power_of_two(IF x = power_of_two(msb(x), Len(x))
                                   THEN ulp_position(x) - 1
                                   ELSE ulp_position(x), Len(x)), 1, 0)

\* the float n steps above x (below, for a negative n)
RECURSIVE steps_from(_, _)
steps_from(x, n) ==
    IF n = 0 THEN x
    ELSE IF n > 0 THEN steps_from(successor(x), n - 1)
    ELSE steps_from(predecessor(x), n + 1)

\* by how many floats x lies above the float t (below, when negative); x is
\* within MaxUlps floats of t
ulps_from(x, t) ==
    IF x = t THEN 0
    ELSE IF less(t, x) THEN CHOOSE n \in 1..MaxUlps : steps_from(t, n) = x
    ELSE CHOOSE n \in (-MaxUlps)..(-1) : steps_from(t, n) = x

\* is the float a / b below the float t: the quotient rounds to a float
\* below t when it lies below the middle between t and the float before t,
\* or on it when that float is the even one of the two
quotient_below_middle(a2, product, t) ==
    \/ less(a2, product)
    \/ a2 = product /\ (t[(ulp_position(t) \div 15) + 1] \div 2^(ulp_position(t) % 15)) % 2 = 1
                    /\ t # power_of_two(msb(t), Len(t))

quotient_below(a, b, t) ==
    /\ msb(t) >= 0
    /\ quotient_below_middle(zeros(5) \o add_limbs(a, a, 1, 0) \o <<0>>,
                             multiply_limbs(add_limbs(predecessor(t), t, 1, 0), b, 1),
                             t)

\* the float a / b, which lies within MaxUlps floats of c: the float that
\* the quotient is not below while it is below the next one
quotient_is(a, b, x) == ~quotient_below(a, b, x) /\ quotient_below(a, b, successor(x))

binary64_quotient(a, b, c) ==
    IF msb(a) < 0 THEN a
    ELSE IF quotient_is(a, b, c) THEN c
    ELSE steps_from(c, CHOOSE n \in (-MaxUlps)..MaxUlps :
                           quotient_is(a, b, steps_from(c, n)))

\* the digits of the integer x \div n, from digit i down, for a divisor n
\* of at most 2**15, and what is left of x after them
RECURSIVE floor_divide(_, _, _, _)
floor_divide(x, n, i, rem) ==
    IF i = 0 THEN <<>>
    ELSE floor_divide(x, n, i - 1, (rem * LimbBase + x[i]) % n)
             \o <<(rem * LimbBase + x[i]) \div n>>

RECURSIVE modulo(_, _, _, _)
modulo(x, n, i, rem) ==
    IF i = 0 THEN rem ELSE modulo(x, n, i - 1, (rem * LimbBase + x[i]) % n)

\* 10**18, the wei of a token, as the digits of an integer
wei_per_token == <<0, 20168, 23246, 28421>>

\* the integer tokens * 10**18 as six digits, for less than 2**29 tokens
wei(tokens) ==
    SubSeq(multiply_limbs(<<tokens % LimbBase, tokens \div LimbBase>>, wei_per_token, 1),
           1, 6)

\* float(x) of an integer of at least 2**53, as a true division converts
\* its int operand
binary64_of_int(x) == round_to_binary64(x, FALSE)

\* x / n of an integer x of at least 2**53 * n and an integer n of at most
\* 2**15: Python's true division of ints, the quotient rounded once
binary64_int_quotient(x, n) ==
    round_to_binary64(floor_divide(x, n, Len(x), 0), modulo(x, n, Len(x), 0) # 0)

\* a decimal as a fraction in lowest terms, <<numerator, denominator>>
RECURSIVE gcd(_, _)
gcd(a, b) == IF b = 0 THEN a ELSE gcd(b, a % b)

fraction(num, den) == <<num \div gcd(num, den), den \div gcd(num, den)>>

fraction_plus(x, y) == fraction(x[1] * y[2] + y[1] * x[2], x[2] * y[2])

\* Config (shared/config.py:26-37)
CACHE_TTL == 300
MIN_CONFIDENCE == 600
HIGH_RISK_THRESHOLD == 700
CRITICAL_RISK_THRESHOLD == 900
CRITICAL_FINANCIAL_THRESHOLD == 1000000
HIGH_FINANCIAL_THRESHOLD == 100000
MEDIUM_FINANCIAL_THRESHOLD == 10000
LOW_FINANCIAL_THRESHOLD == 1000

\* RiskCategory, in the order assess_comprehensive_risk fills
\* risk_components (lines 112-141)
RiskCategory ==
    <<"financial_impact", "behavioral_anomaly", "reputation_risk",
      "historical_context", "approval_risk">>

\* self.risk_weights (lines 70-76, Config.RISK_WEIGHTS)
risk_weights ==
    [ financial_impact |-> 35, behavioral_anomaly |-> 25, reputation_risk |-> 20,
      historical_context |-> 15, approval_risk |-> 5 ]

\* a key a dict does not have
NoValue == -1

\* the token contract and the sender the inputs are about
Token == "0xT0ken"
Sender == "0xFr0m"

\* parsed_data["to_address"] values: a receiver, and the zero address
Receiver == "0xRece1ver"
ZeroAddress == "0x0000000000000000000000000000000000000000"

\* parsed_data["amount"] values, in whole tokens. 4750 tokens are fifty
\* times 95, and in floats a little more.
Amounts == {5, 4750, 400000}

\* parsed_data["approval_amount"] values, in units of 10**24: 10**24 itself
\* (an ordinary approval), twice that, 10**30 itself, and twice that (as any
\* amount above 10**30, 2**256 - 1 among them)
ApprovalAmounts == {1, 2, 1000000, 2000000}

\* keys of self._price_cache: <<token>> is the price entry of the token,
\* <<token, amount>> the entry f"{token_address}_{amount}" of a USD value
PriceKeys == {<<Token>>} \cup {<<Token, a>> : a \in Amounts}

\* keys of self._reputation_cache: <<address>> is the risk data of a sender,
\* <<"historical", address>> and <<"reputation", address>> are the entries
\* f"historical_{address}" and f"reputation_{address}"
ReputationKeys == {<<Sender>>, <<"historical", Sender>>, <<"reputation", Sender>>}

\* EnhancedRiskEngine.__init__ (lines 51-92): empty caches. reads is the
\* list of cache reads of the last assessment, last the assessment it
\* returned, input what it was called with.
engine_init ==
    [ price_cache |-> [k \in PriceKeys |-> None],
      reputation_cache |-> [k \in ReputationKeys |-> None],
      reads |-> <<>>,
      input |-> None,
      last |-> None ]

\* Variant of cache_fresh in which an entry is still served at the age of
\* exactly the time to live.
cache_fresh_inclusive(cache, key, t) ==
    /\ cache[key] # None
    /\ t - cache[key].timestamp <= CACHE_TTL

\* The test every cache read makes (lines 239-242, 271-274, 346-349,
\* 553-556, 579-582): the key is there and
\* datetime.now().timestamp() - cached_data['timestamp'] < self._cache_ttl
cache_fresh(cache, key, t) ==
    /\ cache[key] # None
    /\ t - cache[key].timestamp < CACHE_TTL

\* one cache read, as the history of an assessment keeps it
cache_read(name, cache, key, t, returned, provided) ==
    [ cache |-> name,
      stored_at |-> IF cache[key] = None THEN NoValue ELSE cache[key].timestamp,
      at |-> t,
      hit |-> cache_fresh(cache, key, t),
      stored |-> cache[key],
      returned |-> returned,
      provided |-> provided ]

\* _get_token_price (lines 265-298). env.price is the price CoinGecko gives
\* for the token, NoValue when it gives none (status not 200, token not in
\* the answer, or the request raises): then 1.0 is returned and not cached.
\* fetched_at is not in the code: it is the moment CoinGecko gave the price
\* that is returned, NoValue for the fallback price.
get_token_price(eng, token_address, env, t) ==
    LET key == <<token_address>>
    IN IF cache_fresh(eng.price_cache, key, t)
       THEN [ eng |-> [eng EXCEPT !.reads = Append(@,
                          cache_read("price", eng.price_cache, key, t,
                                     eng.price_cache[key].price, NoValue))],
              price |-> eng.price_cache[key].price,
              fetched_at |-> eng.price_cache[key].timestamp ]
       ELSE LET price == IF env.price # NoValue THEN env.price ELSE 1
                read == cache_read("price", eng.price_cache, key, t, price, env.price)
            IN [ eng |-> [eng EXCEPT
                             !.reads = Append(@, read),
                             !.price_cache =
                                 IF env.price # NoValue
                                 THEN [@ EXCEPT ![key] = [price |-> price, timestamp |-> t]]
                                 ELSE @],
                 price |-> price,
                 fetched_at |-> IF env.price # NoValue THEN t ELSE NoValue ]

\* _calculate_usd_value (lines 231-263). The entry it stores has usd_value
\* and timestamp; price_fetched_at is not in the code: it keeps, for the
\* properties, the moment the price behind the value came from CoinGecko.
calculate_usd_value(eng, amount, token_address, env, t) ==
    LET key == <<token_address, amount>>
    IN IF cache_fresh(eng.price_cache, key, t)
       THEN [ eng |-> [eng EXCEPT !.reads = Append(@,
                          cache_read("usd_value", eng.price_cache, key, t,
                                     eng.price_cache[key].usd_value, NoValue))],
              usd_value |-> eng.price_cache[key].usd_value ]
       ELSE Bind(get_token_price(eng, token_address, env, t),
                 LAMBDA p :
                     [ eng |-> [p.eng EXCEPT
                                  !.reads =
                                      Append(Append(eng.reads,
                                                    cache_read("usd_value", eng.price_cache,
                                                               key, t, amount * p.price,
                                                               amount * p.price)),
                                             p.eng.reads[Len(p.eng.reads)]),
                                  !.price_cache[key] =
                                      [ usd_value |-> amount * p.price, timestamp |-> t,
                                        price_fetched_at |-> p.fetched_at ]],
                       usd_value |-> amount * p.price ])

\* _analyze_financial_impact (lines 181-229)
financial_impact_of(usd_value) ==
    IF usd_value >= CRITICAL_FINANCIAL_THRESHOLD
    THEN [score |-> 1000, confidence |-> 900, factors |-> {"CRITICAL_FINANCIAL_IMPACT"}]
    ELSE IF usd_value >= HIGH_FINANCIAL_THRESHOLD
    THEN [score |-> 800, confidence |-> 800, factors |-> {"HIGH_FINANCIAL_IMPACT"}]
    ELSE IF usd_value >= MEDIUM_FINANCIAL_THRESHOLD
    THEN [score |-> 600, confidence |-> 700, factors |-> {"MEDIUM_FINANCIAL_IMPACT"}]
    ELSE IF usd_value >= LOW_FINANCIAL_THRESHOLD
    THEN [score |-> 400, confidence |-> 600, factors |-> {"LOW_FINANCIAL_IMPACT"}]
    ELSE [score |-> 200, confidence |-> 500, factors |-> {"MINIMAL_FINANCIAL_IMPACT"}]

analyze_financial_impact(eng, event, env, t) ==
    IF event.parsed_data.amount # NoValue
    THEN Bind(calculate_usd_value(eng, event.parsed_data.amount,
                                  event.contract_address, env, t),
              LAMBDA u : [eng |-> u.eng, risk |-> financial_impact_of(u.usd_value)])
    ELSE [ eng |-> eng,
           risk |-> [score |-> 300, confidence |-> 300, factors |-> {"NO_AMOUNT_DATA"}] ]

\* what _get_historical_behavior returns when Etherscan gives nothing
\* (lines 366, 405-412)
no_history ==
    [ transaction_count |-> 0, total_value |-> 0, contracts |-> {},
      first_seen |-> FALSE, account_age_days |-> 0, time_span_days |-> 0 ]

\* _get_historical_behavior (lines 339-415). response is what Etherscan
\* answers: ok is status 200 with a non-empty result, and then the
\* transactions it lists are summed up by their number, the total of their
\* values, the set of their "to" addresses, the age in days of the first
\* and the days between the first and the last.
get_historical_behavior(eng, address, response, t) ==
    LET key == <<"historical", address>>
    IN IF cache_fresh(eng.reputation_cache, key, t)
       THEN [ eng |-> [eng EXCEPT !.reads = Append(@,
                          cache_read("historical", eng.reputation_cache, key, t,
                                     eng.reputation_cache[key].data, None))],
              data |-> eng.reputation_cache[key].data ]
       ELSE LET data == IF response.ok
                        THEN [ transaction_count |-> response.transaction_count,
                               total_value |-> response.total_value,
                               contracts |-> response.contracts,
                               first_seen |-> TRUE,
                               account_age_days |-> response.account_age_days,
                               time_span_days |-> response.time_span_days ]
                        ELSE no_history
                read == cache_read("historical", eng.reputation_cache, key, t, data, data)
            IN [ eng |-> [eng EXCEPT
                             !.reads = Append(@, read),
                             !.reputation_cache =
                                 IF response.ok
                                 THEN [@ EXCEPT ![key] = [data |-> data, timestamp |-> t]]
                                 ELSE @],
                 data |-> data ]

\* historical['frequency_per_day'] > k, for frequency_per_day =
\* total_txs / max(time_span / 86400, 1) (line 383), 0 without a first and
\* a last transaction
frequency_exceeds(historical, k) ==
    /\ historical.first_seen
    /\ historical.transaction_count > k * Max(historical.time_span_days, 1)

\* historical['average_value'] (line 371): total_value / total_txs, ints
\* in wei, as a float
average_value(historical) ==
    binary64_int_quotient(wei(historical.total_value), historical.transaction_count)

\* value_ratio > k for value_ratio = current_value / historical_avg_value
\* (line 440), an int in wei by the float of the average. Where the exact
\* quotient is not k itself it is further from k than the roundings reach;
\* where it is, the float of the quotient decides, which can come out
\* beside k: 4750 tokens by an average of 95 is 50.00000000000001.
value_ratio_exceeds(historical, current_value, k) ==
    IF current_value * historical.transaction_count # k * historical.total_value
    THEN current_value * historical.transaction_count > k * historical.total_value
    ELSE ~quotient_below(binary64_of_int(wei(current_value)), average_value(historical),
                         successor(binary64(k, 1)))

\* Variant of cap_score that leaves the sum as it is.
cap_score_missing(score) == score

\* min(score, 1.0) (lines 489, 747)
cap_score(score) == Min(score, 1000)

\* the float of 1.0
binary64_one == binary64(1, 1)

\* the floats of the decimals 0.000 to 1.000, computed once
binary64_thousandths == [k \in 0..1000 |-> binary64(k, 1000)]

\* the float a score or confidence stands for: the float of the decimal,
\* moved by the ulps the record notes
binary64_near(thousandths, ulps) ==
    steps_from(IF thousandths \in DOMAIN binary64_thousandths
               THEN binary64_thousandths[thousandths]
               ELSE binary64(thousandths, 1000),
               ulps)

score_ulps_of(component) ==
    IF "score_ulps" \in DOMAIN component THEN component.score_ulps ELSE 0

confidence_ulps_of(component) ==
    IF "confidence_ulps" \in DOMAIN component THEN component.confidence_ulps ELSE 0

\* score = 0.0 and the score += <addend> of an analyzer, in the order the
\* code comes to them (lines 433-487, 687-741); an addend of 0 is a branch
\* that was not taken
RECURSIVE binary64_sum(_, _, _)
binary64_sum(addends, i, total) ==
    IF i > Len(addends) THEN total
    ELSE binary64_sum(addends, i + 1,
                      IF addends[i] = 0 THEN total
                      ELSE binary64_plus(total, binary64(addends[i], 1000)))

RECURSIVE exact_sum(_, _)
exact_sum(addends, i) ==
    IF i > Len(addends) THEN 0 ELSE addends[i] + exact_sum(addends, i + 1)

\* by how many floats min(score, 1.0) lies above the float of the decimal
\* sum of the addends
additive_score_ulps(addends) ==
    IF \/ exact_sum(addends, 1) > 1000
       \/ less(binary64_one, binary64_sum(addends, 1, zeros(6)))
    THEN 0
    ELSE ulps_from(binary64_sum(addends, 1, zeros(6)),
                   binary64(exact_sum(addends, 1), 1000))

\* the addends _calculate_anomaly_score may come to (lines 441-487) and the
\* ones _analyze_historical_context may (lines 693-741)
AnomalyAddends ==
    { <<value, contract, frequency, age, count>> :
          value \in {0, 200, 500, 700, 900}, contract \in {0, 100, 300},
          frequency \in {0, 200}, age \in {0, 300, 400}, count \in {0, 300, 500} }

HistoricalAddends ==
    { <<age, count, contracts, value, frequency>> :
          age \in {0, 100, 200, 300}, count \in {0, 100, 200, 400},
          contracts \in {0, 100, 200}, value \in {0, 300}, frequency \in {0, 100, 200} }

\* additive_score_ulps of each of them, computed once
additive_scores ==
    [addends \in AnomalyAddends \cup HistoricalAddends |-> additive_score_ulps(addends)]

\* what an analyzer returns as its score for the addends it came to
additive_score(addends) ==
    [score |-> cap_score(exact_sum(addends, 1)), score_ulps |-> additive_scores[addends]]

\* _calculate_anomaly_score (lines 429-489). value_ratio is bound only when
\* the historical average is positive (line 440); lines 466 and 486 read it
\* regardless, which raises UnboundLocalError when it is not bound. The set
\* of line 451 has the "to" of every transaction, '' for one without, so it
\* is empty only when there is no transaction; historical.contracts are the
\* addresses among them.
calculate_anomaly_score(historical, current_value, current_contract) ==
    LET bound == historical.total_value > 0 /\ historical.transaction_count > 0
        value == IF ~bound THEN 0
                 ELSE IF value_ratio_exceeds(historical, current_value, 1000) THEN 900
                 ELSE IF value_ratio_exceeds(historical, current_value, 100) THEN 700
                 ELSE IF value_ratio_exceeds(historical, current_value, 10) THEN 500
                 ELSE IF value_ratio_exceeds(historical, current_value, 2) THEN 200
                 ELSE 0
        contract == IF current_contract # "" /\ current_contract \notin historical.contracts
                    THEN IF historical.transaction_count > 0 THEN 300 ELSE 100
                    ELSE 0
        reads_at_466 == frequency_exceeds(historical, 0) /\ frequency_exceeds(historical, 10)
        frequency == IF reads_at_466 /\ bound
                        /\ value_ratio_exceeds(historical, current_value, 10)
                     THEN 200 ELSE 0
        age == IF ~historical.first_seen THEN 0
               ELSE IF historical.account_age_days < 1
               THEN IF current_value > 1 THEN 400 ELSE 0
               ELSE IF historical.account_age_days < 7
               THEN IF current_value > 10 THEN 300 ELSE 0
               ELSE 0
        reads_at_486 == historical.transaction_count # 0 /\ historical.transaction_count < 5
        count == IF historical.transaction_count = 0
                 THEN IF current_value > 1 THEN 500 ELSE 0
                 ELSE IF reads_at_486 /\ bound
                         /\ value_ratio_exceeds(historical, current_value, 50)
                 THEN 300 ELSE 0
    IN IF (reads_at_466 \/ reads_at_486) /\ ~bound
       THEN [raised |-> TRUE, score |-> 0, score_ulps |-> 0]
       ELSE [raised |-> FALSE] @@ additive_score(<<value, contract, frequency, age, count>>)

\* data_quality_factor of _calculate_anomaly_confidence (lines 497-504), in
\* tenths
data_quality_factor(historical_data_points) ==
    IF historical_data_points > 50 THEN 10
    ELSE IF historical_data_points > 10 THEN 7
    ELSE IF historical_data_points > 0 THEN 4
    ELSE 1

\* _calculate_anomaly_confidence (lines 491-506):
\* min(anomaly_score * 0.8 * data_quality_factor, 1.0)
calculate_anomaly_confidence(anomaly_score, historical_data_points) ==
    Min((anomaly_score * 8 * data_quality_factor(historical_data_points)) \div 100, 1000)

\* by how many floats that confidence lies above the float of its decimal,
\* for the float the anomaly score is and a data quality factor in tenths.
\* The scores the analyzer passes are whole tenths, which makes the decimal
\* product a whole thousandth below 1.0.
anomaly_confidence_ulps(anomaly_score, ulps, factor) ==
    IF (anomaly_score * 8 * factor) % 100 # 0 \/ anomaly_score * 8 * factor >= 100000
    THEN 0
    ELSE ulps_from(binary64_times(binary64_times(binary64_near(anomaly_score, ulps),
                                                 binary64(8, 10)),
                                  binary64(factor, 10)),
                   binary64((anomaly_score * 8 * factor) \div 100, 1000))

\* anomaly_confidence_ulps of the scores the additions leave, computed once
anomaly_confidences ==
    [k \in {<<100 * i, ulps, factor>> :
                 i \in 0..10, ulps \in -1..1, factor \in {1, 4, 7, 10}} |->
        anomaly_confidence_ulps(k[1], k[2], k[3])]

calculate_anomaly_confidence_ulps(anomaly_score, ulps, historical_data_points) ==
    IF <<anomaly_score, ulps, data_quality_factor(historical_data_points)>>
           \in DOMAIN anomaly_confidences
    THEN anomaly_confidences[<<anomaly_score, ulps,
                               data_quality_factor(historical_data_points)>>]
    ELSE anomaly_confidence_ulps(anomaly_score, ulps,
                                 data_quality_factor(historical_data_points))

\* the result of an analyzer's except clause (lines 227-229, 335-337,
\* 568-570, 758-760, 790-792): f'Analysis error: {str(e)}'
analysis_error(message) ==
    [score |-> 300, confidence |-> 300, factors |-> {"Analysis error: " \o message}]

\* parsed_data.get('amount', 0)
amount_or_zero(event) ==
    IF event.parsed_data.amount = NoValue THEN 0 ELSE event.parsed_data.amount

\* anomaly_score > 0.7 and > 0.4 (lines 320, 322): the float of the score
\* against the float of the threshold
score_exceeds(a, threshold) ==
    a.score > threshold \/ (a.score = threshold /\ a.score_ulps > 0)

\* _detect_behavioral_anomalies, from the anomaly score on (lines 316-337).
\* a is what _calculate_anomaly_score did.
behavioral_anomaly_of(a, historical_data_points) ==
    IF a.raised
    THEN analysis_error("cannot access local variable 'value_ratio' where it is not associated with a value")
    ELSE [ score |-> a.score,
           score_ulps |-> a.score_ulps,
           confidence |-> calculate_anomaly_confidence(a.score, historical_data_points),
           confidence_ulps |->
               calculate_anomaly_confidence_ulps(a.score, a.score_ulps,
                                                 historical_data_points),
           factors |-> IF score_exceeds(a, 700) THEN {"HIGH_ANOMALY_SCORE"}
                       ELSE IF score_exceeds(a, 400) THEN {"MEDIUM_ANOMALY_SCORE"}
                       ELSE {"LOW_ANOMALY_SCORE"} ]

\* _detect_behavioral_anomalies (lines 300-337)
detect_behavioral_anomalies(eng, event, env, t) ==
    IF event.parsed_data.from_address = ""
    THEN [ eng |-> eng,
           risk |-> [score |-> 300, confidence |-> 300, factors |-> {"NO_FROM_ADDRESS"}] ]
    ELSE Bind(get_historical_behavior(eng, event.parsed_data.from_address,
                                      env.history, t),
              LAMBDA h :
                  [ eng |-> h.eng,
                    risk |->
                        behavioral_anomaly_of(
                            calculate_anomaly_score(h.data, amount_or_zero(event),
                                                    event.contract_address),
                            h.data.transaction_count) ])

\* risk_indicators of _check_address_reputation (lines 597-617)
risk_indicators ==
    [ cybercrime |-> 900, money_laundering |-> 900, financial_crime |-> 800,
      sanctioned |-> 900, stealing_attack |-> 800, phishing_activities |-> 800,
      blackmail_activities |-> 700, darkweb_transactions |-> 700, mixer |-> 600,
      honeypot_related_address |-> 700, malicious_mining_activities |-> 600,
      blacklist_doubt |-> 800, fake_kyc |-> 500, fake_standard_interface |-> 500,
      fake_token |-> 400, gas_abuse |-> 400,
      number_of_malicious_contracts_created |-> 600, reinit |-> 300 ]

\* critical_indicators (line 635)
critical_indicators == {"cybercrime", "money_laundering", "financial_crime", "sanctioned"}

\* the indicators GoPlus answers are drawn from
Indicators == {"sanctioned", "mixer"}

\* indicator.replace('_', ' ').title().replace('Kyc', 'KYC') (line 629), for
\* the indicators the answers are drawn from
factor_name(indicator) ==
    IF indicator = "sanctioned" THEN "Sanctioned" ELSE "Mixer"

\* the largest weight among the indicators that are set (lines 622-633)
RECURSIVE max_indicator_weight(_)
max_indicator_weight(indicators) ==
    IF indicators = {} THEN 0
    ELSE LET i == CHOOSE x \in indicators : TRUE
         IN Max(risk_indicators[i], max_indicator_weight(indicators \ {i}))

\* _check_address_reputation (lines 572-670). response is what GoPlus
\* answers: status "ok" (200) with the set of indicators that are set,
\* "error" (another status code) or "raise".
check_address_reputation(eng, address, response, t) ==
    LET key == <<"reputation", address>>
    IN IF cache_fresh(eng.reputation_cache, key, t)
       THEN [ eng |-> [eng EXCEPT !.reads = Append(@,
                          cache_read("reputation", eng.reputation_cache, key, t,
                                     eng.reputation_cache[key].data, None))],
              data |-> eng.reputation_cache[key].data ]
       ELSE LET triggered_factors ==
                    {factor_name(i) : i \in response.indicators}
                        \cup {"CRITICAL: " \o factor_name(i) :
                                 i \in response.indicators \cap critical_indicators}
                max_risk_score ==
                    IF response.indicators \cap critical_indicators # {}
                    THEN Max(max_indicator_weight(response.indicators), 950)
                    ELSE max_indicator_weight(response.indicators)
                data == IF response.status = "ok"
                        THEN [ score |-> max_risk_score,
                               confidence |-> IF triggered_factors # {} THEN 900 ELSE 800,
                               factors |-> IF triggered_factors # {}
                                           THEN triggered_factors
                                           ELSE {"No reputation issues found"} ]
                        ELSE IF response.status = "error"
                        THEN [score |-> 200, confidence |-> 300,
                              factors |-> {"API error: 500"}]
                        ELSE [score |-> 200, confidence |-> 300,
                              factors |-> {"Reputation check failed: timed out"}]
                read == cache_read("reputation", eng.reputation_cache, key, t, data, data)
            IN [ eng |-> [eng EXCEPT
                             !.reads = Append(@, read),
                             !.reputation_cache =
                                 IF response.status = "ok"
                                 THEN [@ EXCEPT ![key] = [data |-> data, timestamp |-> t]]
                                 ELSE @],
                 data |-> data ]

\* _assess_reputation_risk (lines 540-570)
assess_reputation_risk(eng, event, env, t) ==
    IF event.parsed_data.from_address = ""
    THEN [ eng |-> eng,
           risk |-> [score |-> 300, confidence |-> 300, factors |-> {"NO_FROM_ADDRESS"}] ]
    ELSE LET from_address == event.parsed_data.from_address
             key == <<from_address>>
         IN IF cache_fresh(eng.reputation_cache, key, t)
            THEN [ eng |-> [eng EXCEPT !.reads = Append(@,
                               cache_read("risk_data", eng.reputation_cache, key, t,
                                          eng.reputation_cache[key].risk_data, None))],
                   risk |-> eng.reputation_cache[key].risk_data ]
            ELSE Bind(check_address_reputation(eng, from_address, env.reputation, t),
                      LAMBDA r :
                          [ eng |-> [r.eng EXCEPT
                                       !.reads =
                                           Append(Append(eng.reads,
                                                         cache_read("risk_data",
                                                                    eng.reputation_cache,
                                                                    key, t, r.data, r.data)),
                                                  r.eng.reads[Len(r.eng.reads)]),
                                       !.reputation_cache[key] =
                                           [risk_data |-> r.data, timestamp |-> t]],
                            risk |-> r.data ])

\* _analyze_historical_context, from the history on (lines 686-756)
historical_context_of(hb, event) ==
    LET age == IF ~hb.first_seen THEN [score |-> 0, factors |-> {}]
               ELSE IF hb.account_age_days < 1
               THEN [score |-> 300, factors |-> {"NEW_ACCOUNT"}]
               ELSE IF hb.account_age_days < 7
               THEN [score |-> 200, factors |-> {"VERY_NEW_ACCOUNT"}]
               ELSE IF hb.account_age_days < 30
               THEN [score |-> 100, factors |-> {"RECENT_ACCOUNT"}]
               ELSE [score |-> 0, factors |-> {}]
        count == IF hb.transaction_count = 0
                 THEN [score |-> 400, factors |-> {"NO_TRANSACTION_HISTORY"}]
                 ELSE IF hb.transaction_count < 5
                 THEN [score |-> 200, factors |-> {"MINIMAL_TRANSACTION_HISTORY"}]
                 ELSE IF hb.transaction_count > 1000
                 THEN [score |-> 100, factors |-> {"HIGH_FREQUENCY_USER"}]
                 ELSE [score |-> 0, factors |-> {}]
        contracts == IF Cardinality(hb.contracts) = 0
                     THEN [score |-> 200, factors |-> {"NO_CONTRACT_INTERACTIONS"}]
                     ELSE IF Cardinality(hb.contracts) > 100
                     THEN [score |-> 100, factors |-> {"MANY_CONTRACT_INTERACTIONS"}]
                     ELSE [score |-> 0, factors |-> {}]
        value == IF hb.total_value > 0 /\ 2 * amount_or_zero(event) > hb.total_value
                 THEN [score |-> 300, factors |-> {"LARGE_VALUE_RATIO"}]
                 ELSE [score |-> 0, factors |-> {}]
        frequency == IF frequency_exceeds(hb, 50)
                     THEN [score |-> 100, factors |-> {"VERY_HIGH_FREQUENCY"}]
                     ELSE IF ~frequency_exceeds(hb, 0) /\ hb.transaction_count > 0
                     THEN [score |-> 200, factors |-> {"INACTIVE_ACCOUNT"}]
                     ELSE [score |-> 0, factors |-> {}]
        risk_score == additive_score(<<age.score, count.score, contracts.score,
                                       value.score, frequency.score>>)
        risk_factors == age.factors \cup count.factors \cup contracts.factors
                            \cup value.factors \cup frequency.factors
    IN [ score |-> risk_score.score,
         score_ulps |-> risk_score.score_ulps,
         confidence |-> IF hb.transaction_count > 10 THEN 800
                        ELSE IF hb.transaction_count > 0 THEN 600
                        ELSE 400,
         factors |-> IF risk_factors # {} THEN risk_factors
                     ELSE {"STANDARD_HISTORICAL_CONTEXT"} ]

\* _analyze_historical_context (lines 672-760); the history is asked for a
\* second time, env.history_again is what Etherscan answers then
analyze_historical_context(eng, event, env, t) ==
    IF event.parsed_data.from_address = ""
    THEN [ eng |-> eng,
           risk |-> [score |-> 300, confidence |-> 300, factors |-> {"NO_FROM_ADDRESS"}] ]
    ELSE Bind(get_historical_behavior(eng, event.parsed_data.from_address,
                                      env.history_again, t),
              LAMBDA h : [eng |-> h.eng, risk |-> historical_context_of(h.data, event)])

\* _is_unlimited_approval (lines 794-800): one of the two listed values,
\* both 2**256 - 1, or above 10**30 (2**256 - 1 is)
is_unlimited_approval(approval_amount) == approval_amount > 1000000

\* _analyze_approval_risk (lines 762-792)
analyze_approval_risk(event) ==
    IF event.parsed_data.approval_amount # NoValue
    THEN IF is_unlimited_approval(event.parsed_data.approval_amount)
         THEN [score |-> 900, confidence |-> 800, factors |-> {"UNLIMITED_APPROVAL"}]
         ELSE IF event.parsed_data.approval_amount > 1
         THEN [score |-> 700, confidence |-> 800, factors |-> {"LARGE_APPROVAL"}]
         ELSE [score |-> 300, confidence |-> 800, factors |-> {"NORMAL_APPROVAL"}]
    ELSE [score |-> 0, confidence |-> 800, factors |-> {}]

\* the categories assess_comprehensive_risk invokes for an event type
\* (lines 112-141), in the order it puts them into risk_components
invoked_categories(event_type) ==
    IF event_type = "Approval" THEN RiskCategory ELSE SubSeq(RiskCategory, 1, 4)

RECURSIVE weighted_sum(_, _, _)
weighted_sum(risk_components, categories, i) ==
    IF i > Len(categories) THEN 0
    ELSE risk_components[categories[i]].score * risk_weights[categories[i]]
             + weighted_sum(risk_components, categories, i + 1)

RECURSIVE weight_sum(_, _)
weight_sum(categories, i) ==
    IF i > Len(categories) THEN 0
    ELSE risk_weights[categories[i]] + weight_sum(categories, i + 1)

RECURSIVE confidence_sum(_, _, _)
confidence_sum(risk_components, categories, i) ==
    IF i > Len(categories) THEN 0
    ELSE risk_components[categories[i]].confidence
             + confidence_sum(risk_components, categories, i + 1)

\* the floats of the weights, and component['score'] * weight (line 811)
\* for the scores the analyzers return, computed once
binary64_weights ==
    [category \in DOMAIN risk_weights |-> binary64(risk_weights[category], 100)]

score_times_weight(score, ulps, category) ==
    binary64_times(binary64_near(score, ulps), binary64_weights[category])

scores_times_weights ==
    [k \in {<<50 * i, ulps, category>> :
                 i \in 0..20, ulps \in -1..1, category \in DOMAIN risk_weights} |->
        score_times_weight(k[1], k[2], k[3])]

weighted_score_binary64(component, category) ==
    IF <<component.score, score_ulps_of(component), category>>
           \in DOMAIN scores_times_weights
    THEN scores_times_weights[<<component.score, score_ulps_of(component), category>>]
    ELSE score_times_weight(component.score, score_ulps_of(component), category)

\* total_score and total_weight as the loop of _calculate_weighted_risk_score
\* leaves them (lines 808-813), and sum(confidence_factors) (line 145): the
\* floats
RECURSIVE total_score_binary64(_, _, _, _)
total_score_binary64(risk_components, categories, i, total) ==
    IF i > Len(categories) THEN total
    ELSE total_score_binary64(
             risk_components, categories, i + 1,
             binary64_plus(total,
                 weighted_score_binary64(risk_components[categories[i]], categories[i])))

RECURSIVE total_weight_binary64(_, _, _)
total_weight_binary64(categories, i, total) ==
    IF i > Len(categories) THEN total
    ELSE total_weight_binary64(categories, i + 1,
             binary64_plus(total, binary64_weights[categories[i]]))

\* total_weight for the first n categories, computed once
total_weights ==
    [n \in 0..Len(RiskCategory) |->
        total_weight_binary64(SubSeq(RiskCategory, 1, n), 1, zeros(6))]

total_weight_of(categories) ==
    IF categories = SubSeq(RiskCategory, 1, Len(categories))
    THEN total_weights[Len(categories)]
    ELSE total_weight_binary64(categories, 1, zeros(6))

\* the floats of the counts len(confidence_factors) can be
binary64_counts == [n \in 1..Len(RiskCategory) |-> binary64(n, 1)]

RECURSIVE confidence_sum_binary64(_, _, _, _)
confidence_sum_binary64(risk_components, categories, i, total) ==
    IF i > Len(categories) THEN total
    ELSE confidence_sum_binary64(
             risk_components, categories, i + 1,
             binary64_plus(total,
                 binary64_near(risk_components[categories[i]].confidence,
                               confidence_ulps_of(risk_components[categories[i]]))))

\* a / b in thousandths, for the floats a and b of the decimals num and den
\* (num in thousandths of den's unit): the largest q whose float is not
\* above the float a / b. That is the decimal quotient rounded down, unless
\* the decimal quotient is a whole number of thousandths and the float
\* quotient falls below the float of it.
thousandths_of_quotient(num, den, a, b) ==
    IF num % den = 0 /\ quotient_below(a, b, binary64_near(num \div den, 0))
    THEN (num \div den) - 1
    ELSE num \div den

\* Variant of calculate_weighted_risk_score that divides by the sum of the
\* whole weight table, whichever categories were invoked.
calculate_weighted_risk_score_static(risk_components, categories) ==
    weighted_sum(risk_components, categories, 1)
        \div weight_sum(RiskCategory, 1)

\* _calculate_weighted_risk_score (lines 802-815):
\* total_score / max(total_weight, 0.001); a weight is at least 0.05
calculate_weighted_risk_score(risk_components, categories) ==
    IF Len(categories) = 0 THEN 0
    ELSE thousandths_of_quotient(
             weighted_sum(risk_components, categories, 1),
             weight_sum(categories, 1),
             total_score_binary64(risk_components, categories, 1, zeros(6)),
             total_weight_of(categories))

\* sum(confidence_factors) / len(confidence_factors) (line 145)
overall_confidence_of(risk_components, categories) ==
    thousandths_of_quotient(
        confidence_sum(risk_components, categories, 1),
        Len(categories),
        confidence_sum_binary64(risk_components, categories, 1, zeros(6)),
        binary64_counts[Len(categories)])

\* _generate_recommendation (lines 817-830)
generate_recommendation(risk_score, confidence) ==
    IF confidence < MIN_CONFIDENCE THEN "MONITOR"
    ELSE IF risk_score >= CRITICAL_RISK_THRESHOLD THEN "CRITICAL_INVESTIGATION"
    ELSE IF risk_score >= HIGH_RISK_THRESHOLD THEN "IMMEDIATE_INVESTIGATION"
    ELSE IF risk_score >= 500 THEN "INVESTIGATE"
    ELSE "MONITOR"

\* x[1]['score'] of one component greater than that of another, as floats
score_greater(component, other) ==
    \/ component.score > other.score
    \/ /\ component.score = other.score
       /\ score_ulps_of(component) > score_ulps_of(other)

\* max(risk_components.items(), key=lambda x: x[1]['score'])[0] (line 148):
\* Python's max keeps the first of several greatest items, in the order the
\* dict was filled
RECURSIVE primary_category(_, _, _, _)
primary_category(risk_components, categories, i, best) ==
    IF i > Len(categories) THEN best
    ELSE primary_category(
             risk_components, categories, i + 1,
             IF score_greater(risk_components[categories[i]], risk_components[best])
             THEN categories[i] ELSE best)

\* the assessment of the except clause (lines 170-179)
assessment_error ==
    [ overall_score |-> 500,
      confidence |-> 100,
      risk_category |-> "financial_impact",
      factors |-> {"Assessment error: 'NoneType' object has no attribute 'transaction_hash'"},
      recommendation |-> "INVESTIGATE",
      details |-> [error |-> "'NoneType' object has no attribute 'transaction_hash'"] ]

\* assess_comprehensive_risk, from the component results on (lines
\* 143-166): all_components has the result of each analyzer, categories
\* the ones that were run, whose results are kept in risk_components
assessment_of(all_components, categories) ==
    Bind([c \in {categories[i] : i \in 1..Len(categories)} |-> all_components[c]],
         LAMBDA risk_components :
             Bind(calculate_weighted_risk_score(risk_components, categories),
                  LAMBDA overall_score :
                      Bind(overall_confidence_of(risk_components, categories),
                           LAMBDA overall_confidence :
                               [ overall_score |-> overall_score,
                                 confidence |-> overall_confidence,
                                 risk_category |->
                                     primary_category(risk_components, categories, 2,
                                                      categories[1]),
                                 factors |-> UNION {risk_components[c].factors :
                                                       c \in DOMAIN risk_components},
                                 recommendation |->
                                     generate_recommendation(overall_score,
                                                             overall_confidence),
                                 details |-> [risk_components |-> risk_components] ])))

\* assess_comprehensive_risk (lines 94-179). processed_event is a
\* ProcessedEvent, or None: then line 105 raises and the except clause
\* returns. t is the clock during the call.
assess_comprehensive_risk(eng, processed_event, env, t) ==
    IF processed_event = None
    THEN [eng |-> eng, assessment |-> assessment_error]
    ELSE Bind(analyze_financial_impact(eng, processed_event, env, t),
         LAMBDA financial_risk :
         Bind(detect_behavioral_anomalies(financial_risk.eng, processed_event, env, t),
         LAMBDA anomaly_risk :
         Bind(assess_reputation_risk(anomaly_risk.eng, processed_event, env, t),
         LAMBDA reputation_risk :
         Bind(analyze_historical_context(reputation_risk.eng, processed_event, env, t),
         LAMBDA historical_risk :
             [ eng |-> historical_risk.eng,
               assessment |->
                   assessment_of(
                       [ financial_impact |-> financial_risk.risk,
                         behavioral_anomaly |-> anomaly_risk.risk,
                         reputation_risk |-> reputation_risk.risk,
                         historical_context |-> historical_risk.risk,
                         approval_risk |-> analyze_approval_risk(processed_event) ],
                       invoked_categories(processed_event.event_type)) ]))))

\* ---------------------------------------- inputs of the risk engine
\* ProcessedEvent.parsed_data (models.py:40-53): the keys the engine reads
ParsedData ==
    [ amount : Amounts \cup {NoValue},
      from_address : {"", Sender},
      to_address : {Receiver, ZeroAddress},
      approval_amount : ApprovalAmounts \cup {NoValue} ]

\* ProcessedEvent (models.py:40-53), the fields the engine reads
ProcessedEvents(hashes) ==
    { e \in [ transaction_hash : hashes, event_type : EventTypes,
              contract_address : {Token}, parsed_data : ParsedData ] :
          /\ e.event_type = "Transfer" => e.parsed_data.approval_amount = NoValue
          /\ e.event_type = "Approval" => e.parsed_data.to_address = Receiver
          /\ e.parsed_data.amount = 4750 =>
                 /\ e.event_type = "Transfer"
                 /\ e.parsed_data.from_address = Sender
                 /\ e.parsed_data.to_address = Receiver }

\* one transaction of 95 tokens that has no "to" (a contract creation), a
\* year ago
creation_history ==
    [ ok |-> TRUE, transaction_count |-> 1, total_value |-> 95, contracts |-> {},
      account_age_days |-> 365, time_span_days |-> 0 ]

\* what Etherscan may answer for the sender: nothing; one transaction of
\* value 0 to the token, a year ago; sixty transactions of one token each to
\* another contract, all of today; the contract creation
HistoryResponses ==
    { [ ok |-> FALSE, transaction_count |-> 0, total_value |-> 0, contracts |-> {},
        account_age_days |-> 0, time_span_days |-> 0 ],
      [ ok |-> TRUE, transaction_count |-> 1, total_value |-> 0, contracts |-> {Token},
        account_age_days |-> 365, time_span_days |-> 0 ],
      [ ok |-> TRUE, transaction_count |-> 60, total_value |-> 60,
        contracts |-> {"0x0ther"}, account_age_days |-> 0, time_span_days |-> 0 ],
      creation_history }

\* what GoPlus may answer for the sender
ReputationResponses ==
    { [status |-> "error", indicators |-> {}],
      [status |-> "raise", indicators |-> {}],
      [status |-> "ok", indicators |-> {}],
      [status |-> "ok", indicators |-> {"sanctioned"}] }

\* what CoinGecko may answer for the token: no price, or 3000 dollars
Prices == {NoValue, 3000}

\* what the three providers answer during one assessment; the contract
\* creation is answered both times or neither
Environments ==
    { env \in [ price : Prices, history : HistoryResponses,
                history_again : HistoryResponses, reputation : ReputationResponses ] :
          creation_history \in {env.history, env.history_again} =>
              env.history_again = env.history }

\* ------------------------------------------- phase-2 risk assessor
\* agent_state of phase2_risk_assessor.py (lines 53-77), the fields the
\* handler writes
risk_assessor_state_init ==
    [ assessments_completed |-> 0,
      high_risk_assessments |-> 0,
      critical_risk_assessments |-> 0,
      risk_categories |->
          [ financial_impact |-> 0, behavioral_anomaly |-> 0, reputation_risk |-> 0,
            historical_context |-> 0, approval_risk |-> 0 ],
      communication_stats |->
          [requests_received |-> 0, responses_sent |-> 0, errors_handled |-> 0] ]

\* a run of handle_event_analysis_result: where it is (idle before its
\* message arrives, then suspended at the await of one of its four
\* ctx.send, then done), its message, the result it built, the messages it
\* sent in sending order, whether its except clause ran and whether an
\* exception left the handler
assessor_run_idle ==
    [ pc |-> "idle",    \* idle | await_acknowledgment | await_result
                        \*   | await_error_result | await_error_notification | done
      request |-> None, result |-> None, sent |-> <<>>,
      caught |-> FALSE, raised |-> FALSE ]

\* the worker before its first request: the agent_state its handlers share,
\* and the runs of handle_event_analysis_result
risk_assessor_idle ==
    [ agent_state |-> risk_assessor_state_init,
      runs |-> [r \in AssessorRuns |-> assessor_run_idle] ]

\* handle_event_analysis_result, the loop over msg.processed_events (lines
\* 129-166), from event number i on. acc carries the engine, agent_state
\* and the three lists the loop fills.
\* the body of the loop for one event (lines 130-166): a is the
\* assessment the engine returned for it, eng the engine after the call
assess_one(acc, processed_event, a, eng) ==
    LET critical == a.overall_score >= CRITICAL_RISK_THRESHOLD
        high == ~critical /\ a.overall_score >= HIGH_RISK_THRESHOLD
    IN [ eng |-> eng,
         st |-> [acc.st EXCEPT
                    !.risk_categories[a.risk_category] = @ + 1,
                    !.critical_risk_assessments = IF critical THEN @ + 1 ELSE @,
                    !.high_risk_assessments = IF high THEN @ + 1 ELSE @],
         risk_assessments |->
             Append(acc.risk_assessments,
                    [ transaction_hash |-> processed_event.transaction_hash,
                      event_type |-> processed_event.event_type,
                      risk_score |-> a.overall_score,
                      confidence |-> a.confidence,
                      risk_category |-> a.risk_category,
                      factors |-> a.factors,
                      recommendation |-> a.recommendation,
                      details |-> a.details ]),
         critical_events |->
             IF critical
             THEN Append(acc.critical_events,
                         [ transaction_hash |-> processed_event.transaction_hash,
                           risk_score |-> a.overall_score,
                           recommendation |-> a.recommendation ])
             ELSE acc.critical_events,
         recommendations |->
             IF critical
             THEN Append(acc.recommendations,
                         <<"CRITICAL", a.recommendation, processed_event.transaction_hash>>)
             ELSE IF high
             THEN Append(acc.recommendations,
                         <<"HIGH RISK", a.recommendation, processed_event.transaction_hash>>)
             ELSE acc.recommendations ]

RECURSIVE assess_each(_, _, _, _, _)
assess_each(acc, processed_events, envs, i, t) ==
    IF i > Len(processed_events) THEN acc
    ELSE Bind(assess_comprehensive_risk([acc.eng EXCEPT !.reads = <<>>],
                                        processed_events[i], envs[i], t),
              LAMBDA r :
                  assess_each(assess_one(acc, processed_events[i], r.assessment, r.eng),
                              processed_events, envs, i + 1, t))

\* generate_pattern_recommendations (lines 256-278), from pattern number i on
RECURSIVE generate_pattern_recommendations(_, _)
generate_pattern_recommendations(patterns_detected, i) ==
    IF i > Len(patterns_detected) THEN <<>>
    ELSE LET pattern_type == patterns_detected[i].pattern_type
             description == patterns_detected[i].description
             rest == generate_pattern_recommendations(patterns_detected, i + 1)
         IN IF pattern_type = "large_transfer"
            THEN <<<<"Monitor large transfer", description>>>> \o rest
            ELSE IF pattern_type = "unlimited_approval"
            THEN <<<<"IMMEDIATE ACTION: Unlimited approval detected">>>> \o rest
            ELSE IF pattern_type = "zero_address_interaction"
            THEN <<<<"Investigate zero address interaction">>>> \o rest
            ELSE IF pattern_type = "critical_suspicion"
            THEN <<<<"CRITICAL", description>>>> \o rest
            ELSE IF pattern_type = "multiple_risk_factors"
            THEN <<<<"High complexity event", description>>>> \o rest
            ELSE rest

\* the categories a risk_components dict has, in the order it was filled
categories_of(risk_components) ==
    SelectSeq(RiskCategory, LAMBDA c : c \in DOMAIN risk_components)

has_components(ra) ==
    "details" \in DOMAIN ra /\ "risk_components" \in DOMAIN ra.details

\* ra["risk_score"] and ra.get("confidence", 0.0) of an entry. The entry's
\* risk_score and confidence are whole thousandths; the numbers the engine
\* put there are the quotients of lines 815 and 145 of the engine, which
\* are here computed again from the components, where the entry has them:
\* as the decimal fraction, a number of thousandths, and as the float.
risk_score_fraction(ra) ==
    IF has_components(ra)
    THEN Bind(categories_of(ra.details.risk_components),
              LAMBDA categories :
                  fraction(weighted_sum(ra.details.risk_components, categories, 1),
                           weight_sum(categories, 1)))
    ELSE <<ra.risk_score, 1>>

risk_score_binary64(ra) ==
    IF has_components(ra)
    THEN Bind(categories_of(ra.details.risk_components),
              LAMBDA categories :
                  Bind(fraction(weighted_sum(ra.details.risk_components, categories, 1),
                                weight_sum(categories, 1) * 1000),
                       LAMBDA decimal :
                           binary64_quotient(
                               total_score_binary64(ra.details.risk_components,
                                                    categories, 1, zeros(6)),
                               total_weight_of(categories),
                               binary64(decimal[1], decimal[2]))))
    ELSE binary64_near(ra.risk_score, 0)

confidence_fraction(ra) ==
    IF "confidence" \notin DOMAIN ra THEN <<0, 1>>
    ELSE IF has_components(ra)
    THEN Bind(categories_of(ra.details.risk_components),
              LAMBDA categories :
                  fraction(confidence_sum(ra.details.risk_components, categories, 1),
                           Len(categories)))
    ELSE <<ra.confidence, 1>>

confidence_binary64(ra) ==
    IF "confidence" \notin DOMAIN ra THEN zeros(6)
    ELSE IF has_components(ra)
    THEN Bind(categories_of(ra.details.risk_components),
              LAMBDA categories :
                  Bind(fraction(confidence_sum(ra.details.risk_components, categories, 1),
                                Len(categories) * 1000),
                       LAMBDA decimal :
                           binary64_quotient(
                               confidence_sum_binary64(ra.details.risk_components,
                                                       categories, 1, zeros(6)),
                               binary64(Len(categories), 1),
                               binary64(decimal[1], decimal[2]))))
    ELSE binary64_near(ra.confidence, 0)

\* sum(... for ra in risk_assessments) from entry i on (lines 170, 291), as
\* the decimal fraction and as the float; of(ra) is the number of an entry
RECURSIVE fraction_sum(_, _, _)
fraction_sum(risk_assessments, of(_), i) ==
    IF i > Len(risk_assessments) THEN <<0, 1>>
    ELSE fraction_plus(of(risk_assessments[i]),
                       fraction_sum(risk_assessments, of, i + 1))

RECURSIVE float_sum(_, _, _, _)
float_sum(risk_assessments, of(_), i, total) ==
    IF i > Len(risk_assessments) THEN total
    ELSE float_sum(risk_assessments, of, i + 1,
                   binary64_plus(total, of(risk_assessments[i])))

\* sum(ra["risk_score"] for ra in risk_assessments) / len(risk_assessments)
\* (line 170), in thousandths
mean_risk_score(risk_assessments) ==
    Bind(fraction_sum(risk_assessments, risk_score_fraction, 1),
         LAMBDA total :
             thousandths_of_quotient(
                 total[1], total[2] * Len(risk_assessments),
                 float_sum(risk_assessments, risk_score_binary64, 1, zeros(6)),
                 binary64(Len(risk_assessments), 1)))

\* final_confidence of calculate_assessment_confidence (line 295) as the
\* float: (base_confidence * 0.4) + (assessment_confidence * 0.6), for the
\* decimal fraction total the confidences of the entries add up to
final_confidence_binary64(risk_assessments, event_confidence, total) ==
    Bind(fraction(total[1], total[2] * Len(risk_assessments) * 1000),
         LAMBDA decimal :
             binary64_plus(
                 binary64_times(binary64_near(event_confidence, 0), binary64(4, 10)),
                 binary64_times(
                     binary64_quotient(
                         float_sum(risk_assessments, confidence_binary64, 1, zeros(6)),
                         binary64(Len(risk_assessments), 1),
                         binary64(decimal[1], decimal[2])),
                     binary64(6, 10))))

\* the whole thousandths of final_confidence: num / den rounded down, unless
\* that is a whole number of thousandths and the float falls below its float
final_confidence(risk_assessments, event_confidence, total, num, den) ==
    IF /\ num % den = 0
       /\ less(final_confidence_binary64(risk_assessments, event_confidence, total),
               binary64_near(num \div den, 0))
    THEN (num \div den) - 1
    ELSE num \div den

\* calculate_assessment_confidence (lines 280-297):
\* min(event_confidence * 0.4 + mean confidence * 0.6, 1.0)
calculate_assessment_confidence(risk_assessments, event_confidence) ==
    IF Len(risk_assessments) = 0 THEN 0
    ELSE Bind(fraction_sum(risk_assessments, confidence_fraction, 1),
              LAMBDA total :
                  Min(final_confidence(
                          risk_assessments, event_confidence, total,
                          event_confidence * 4 * total[2] * Len(risk_assessments)
                              + total[1] * 6,
                          10 * total[2] * Len(risk_assessments)),
                      1000))

\* the RiskAssessmentResult the handler builds from what the loop gathered
\* (lines 168-195)
risk_assessment_result(done, msg) ==
    [ type |-> "RiskAssessmentResult",
      risk_assessments |-> done.risk_assessments,
      overall_risk_score |->
          IF Len(done.risk_assessments) > 0
          THEN mean_risk_score(done.risk_assessments)
          ELSE 0,
      critical_events |-> done.critical_events,
      recommendations |->
          done.recommendations \o generate_pattern_recommendations(msg.patterns_detected, 1),
      request_id |-> msg.request_id,
      confidence_score |->
          calculate_assessment_confidence(done.risk_assessments, msg.confidence_score) ]

\* str(e) of the exception a ctx.send raises
send_error == "send failed"

\* handle_event_analysis_result from its entry to the await of its first
\* ctx.send (lines 99-126): the request is counted, the acknowledgment
\* built and handed to ctx.send
handle_event_analysis_result(st, msg) ==
    [ st |-> [st EXCEPT !.communication_stats.requests_received = @ + 1],
      run |-> [assessor_run_idle EXCEPT !.pc = "await_acknowledgment", !.request = msg] ]

\* the except clause up to the await of its first ctx.send (lines 211-225):
\* the error is counted, the error result handed to ctx.send
handle_assessment_error(st, run) ==
    [ st |-> [st EXCEPT !.communication_stats.errors_handled = @ + 1],
      run |-> [run EXCEPT !.pc = "await_error_result", !.caught = TRUE] ]

\* from the return of the ctx.send of the acknowledgment to the next await
\* (lines 126-200): one assessment per processed event, the statistics, the
\* RiskAssessmentResult handed to ctx.send; raises says that the ctx.send
\* raised
acknowledgment_sent(eng, st, run, envs, t, raises) ==
    IF raises THEN [eng |-> eng] @@ handle_assessment_error(st, run)
    ELSE Bind(assess_each([ eng |-> eng, st |-> st,
                            risk_assessments |-> <<>>,
                            critical_events |-> <<>>, recommendations |-> <<>> ],
                          run.request.processed_events, envs, 1, t),
              LAMBDA done :
                  [ eng |-> done.eng,
                    st |-> [done.st EXCEPT !.assessments_completed = @ + 1],
                    run |-> [run EXCEPT
                               !.pc = "await_result",
                               !.sent = Append(@, [ type |-> "AgentAcknowledgment",
                                                    request_id |-> run.request.request_id,
                                                    status |-> "processing" ]),
                               !.result = risk_assessment_result(done, run.request)] ])

\* from the return of the ctx.send of the result to the end of the handler
\* or the next await (lines 200-225)
result_sent(st, run, raises) ==
    IF raises THEN handle_assessment_error(st, run)
    ELSE [ st |-> [st EXCEPT !.communication_stats.responses_sent = @ + 1],
           run |-> [run EXCEPT !.pc = "done", !.sent = Append(@, run.result)] ]

\* the except clause from the return of the ctx.send of the error result
\* to its next await (lines 225-235). A ctx.send that raises here ends the
\* handler with the exception.
error_result_sent(run, raises) ==
    IF raises THEN [run EXCEPT !.pc = "done", !.raised = TRUE]
    ELSE [run EXCEPT
            !.pc = "await_error_notification",
            !.sent = Append(@, [ type |-> "RiskAssessmentResult",
                                 risk_assessments |-> <<>>,
                                 overall_risk_score |-> 0,
                                 critical_events |-> <<>>,
                                 recommendations |-> <<<<"Assessment error", send_error>>>>,
                                 request_id |-> run.request.request_id,
                                 confidence_score |-> 0 ])]

\* the except clause from the return of the ctx.send of the AgentError to
\* the end of the handler (line 235)
error_notification_sent(run, raises) ==
    IF raises THEN [run EXCEPT !.pc = "done", !.raised = TRUE]
    ELSE [run EXCEPT
            !.pc = "done",
            !.sent = Append(@, [ type |-> "AgentError",
                                 error_type |-> "assessment_error",
                                 error_message |-> send_error,
                                 request_id |-> run.request.request_id ])]

\* --------------------------------------------------------- red agent
\* agents-reasoning/red_agent: RiskEngine (risk_engine.py) and the
\* /analyze-events endpoint (red_agent.py). Scores and confidences in
\* thousandths, weights in hundredths, values in whole ETH.

\* RiskEngine.risk_weights (risk_engine.py:9-15)
red_risk_weights ==
    [ financial_impact |-> 30, approval_risk |-> 20, signature_risk |-> 15,
      anomaly_score |-> 15, historical_context |-> 10 ]

\* the categories assess_risk invokes (risk_engine.py:39-57); the approval
\* analysis is commented out (lines 44-47)
red_invoked == {"financial_impact", "anomaly_score", "historical_context"}

RECURSIVE sum_weights(_, _)
sum_weights(weights, keys) ==
    IF keys = {} THEN 0
    ELSE LET k == CHOOSE x \in keys : TRUE
         IN weights[k] + sum_weights(weights, keys \ {k})

\* tx_hash.startswith('0xabc') (risk_engine.py:220), for the hashes of the inputs
starts_with_0xabc(tx_hash) == tx_hash = "0xabc1"

\* metadata["args"] of a candidate event, items being len(args): missing or
\* an empty dict (kind "none"); a list of items elements (kind "list": []
\* when items is 0); a dict with a value in ETH, a sender and a receiver,
\* either of which may be the zero address ("" where args has no such key)
RedArgs ==
    { [kind |-> "none", items |-> 0, value |-> 0, from |-> "", to |-> ""],
      [kind |-> "list", items |-> 0, value |-> 0, from |-> "", to |-> ""],
      [kind |-> "list", items |-> 1, value |-> 0, from |-> "", to |-> ""],
      [kind |-> "dict", items |-> 3, value |-> 5, from |-> Sender, to |-> Receiver],
      [kind |-> "dict", items |-> 3, value |-> 5, from |-> Sender, to |-> ZeroAddress],
      [kind |-> "dict", items |-> 3, value |-> 5, from |-> ZeroAddress, to |-> Receiver],
      [kind |-> "dict", items |-> 3, value |-> 2000, from |-> Sender, to |-> Receiver] }

\* CandidateEvent (red_agent.py:34-42), the fields that are read
\* drawn from: approvals of 2000 ETH; events without a contract address
\* that carry 5 ETH; the hash that is looked up on chain for events whose
\* args are empty
CandidateEvent ==
    { e \in [ transaction_hash : {"0xabc1", "0x5e1f"}, log_index : {0},
              contract_address : {"", "0xC0ntract"},
              event_type : {"Transfer", "Approval"},
              metadata : [args : RedArgs] ] :
          /\ e.event_type = "Approval" => e.metadata.args.value = 2000
          /\ e.contract_address = "" =>
                 e.metadata.args
                     = [kind |-> "dict", items |-> 3, value |-> 5,
                        from |-> Sender, to |-> Receiver]
          /\ e.transaction_hash = "0x5e1f" => e.metadata.args.items = 0 }

\* what the node and the PoC generator do for one event: the total value the
\* node reports for the transaction (NoValue when the lookup raises), and
\* whether generate_poc returns or raises
RedEnvironments ==
    { [onchain |-> NoValue, poc |-> "generated"],
      [onchain |-> 2000, poc |-> "generated"],
      [onchain |-> 2000, poc |-> "raise"] }

\* _analyze_onchain_impact (risk_engine.py:232-276)
analyze_onchain_impact(total_value) ==
    IF total_value = NoValue THEN [score |-> 300, confidence |-> 300]
    ELSE IF total_value > 100000 THEN [score |-> 1000, confidence |-> 900]
    ELSE IF total_value > 10000 THEN [score |-> 800, confidence |-> 800]
    ELSE IF total_value > 1000 THEN [score |-> 600, confidence |-> 700]
    ELSE IF total_value > 100 THEN [score |-> 400, confidence |-> 600]
    ELSE [score |-> 200, confidence |-> 500]

\* RiskEngine.analyze_financial_impact (risk_engine.py:143-230). Args that
\* are falsy (missing, {} or []) skip the metadata branch (line 165): the
\* transaction is looked up on chain unless its hash starts with 0xabc
\* (lines 219-224). On a list that is not empty args.get raises
\* AttributeError (line 166), which the outer except clause turns into
\* 0.3 / 0.3 (lines 228-230).
red_analyze_financial_impact(event, env) ==
    LET args == event.metadata.args
        eth_value == args.value
        base == IF eth_value >= 1000000 THEN [score |-> 1000, confidence |-> 950]
                ELSE IF eth_value >= 100000 THEN [score |-> 900, confidence |-> 900]
                ELSE IF eth_value >= 10000 THEN [score |-> 800, confidence |-> 850]
                ELSE IF eth_value >= 1000 THEN [score |-> 700, confidence |-> 800]
                ELSE IF eth_value >= 100 THEN [score |-> 600, confidence |-> 750]
                ELSE IF eth_value >= 10 THEN [score |-> 400, confidence |-> 700]
                ELSE IF eth_value >= 1 THEN [score |-> 300, confidence |-> 600]
                ELSE [score |-> 100, confidence |-> 500]
        zero == IF args.to = ZeroAddress \/ args.from = ZeroAddress
                THEN [score |-> Min(1000, base.score + 200),
                      confidence |-> Min(1000, base.confidence + 100)]
                ELSE base
        approval == IF event.event_type = "Approval" /\ eth_value >= 1000
                    THEN [score |-> Min(1000, zero.score + 300),
                          confidence |-> Min(1000, zero.confidence + 150)]
                    ELSE zero
    IN IF args.items = 0
       THEN IF ~starts_with_0xabc(event.transaction_hash)
            THEN analyze_onchain_impact(env.onchain)
            ELSE [score |-> 200, confidence |-> 500]
       ELSE IF args.kind = "list" THEN [score |-> 300, confidence |-> 300]
       ELSE approval

\* RiskEngine.detect_anomalies (risk_engine.py:415-435)
detect_anomalies(event) ==
    IF event.contract_address = "" THEN [score |-> 300, confidence |-> 300]
    ELSE [score |-> 200, confidence |-> 500]

\* RiskEngine.check_historical_context (risk_engine.py:602-620)
check_historical_context(event) ==
    IF event.contract_address = "" THEN [score |-> 500, confidence |-> 300]
    ELSE [score |-> 300, confidence |-> 500]

\* _determine_vulnerability_type (risk_engine.py:89-135); args.get (lines
\* 104, 121) raises when args is a list, empty or not, and the event is a
\* transfer or an approval
determine_vulnerability_type(event, risk_score) ==
    LET args == event.metadata.args
    IN IF args.kind = "list" THEN "raise"
       ELSE IF event.event_type = "Transfer" /\ args.value >= 10000 THEN "massive_transfer"
       ELSE IF event.event_type = "Transfer" /\ args.value >= 1000 THEN "large_transfer"
       ELSE IF event.event_type = "Transfer" /\ args.to = ZeroAddress THEN "token_burn"
       ELSE IF event.event_type = "Transfer" /\ args.from = ZeroAddress THEN "token_mint"
       ELSE IF event.event_type = "Approval" /\ args.value >= 100000
       THEN "unlimited_approval"
       ELSE IF event.event_type = "Approval" /\ args.value >= 10000
       THEN "excessive_approval"
       ELSE IF risk_score >= 800 THEN "high_risk_activity"
       ELSE IF risk_score >= 600 THEN "medium_risk_activity"
       ELSE "unknown"

\* the weight assess_risk divides by (risk_engine.py:62):
\* sum(self.risk_weights.values()), the whole table
red_total_weight == sum_weights(red_risk_weights, DOMAIN red_risk_weights)

\* RiskEngine.MIN_CONFIDENCE (risk_engine.py:16)
RED_MIN_CONFIDENCE == 750

\* RiskEngine.assess_risk (risk_engine.py:35-87). raised says that the call
\* ended in an exception; the three component results are kept beside what
\* the code returns.
assess_risk(event, env) ==
    Bind([ financial_impact |-> red_analyze_financial_impact(event, env),
           anomaly_score |-> detect_anomalies(event),
           historical_context |-> check_historical_context(event) ],
         LAMBDA components :
             Bind(Max(0, Min(1000,
                      (components["financial_impact"].score
                           * red_risk_weights["financial_impact"]
                       + components["anomaly_score"].score
                           * red_risk_weights["anomaly_score"]
                       + components["historical_context"].score
                           * red_risk_weights["historical_context"])
                          \div red_total_weight)),
                  LAMBDA normalized_risk_score :
                      Bind((components["financial_impact"].confidence
                                + components["anomaly_score"].confidence
                                + components["historical_context"].confidence) \div 3,
                           LAMBDA overall_confidence :
                               [ raised |->
                                     determine_vulnerability_type(
                                         event, normalized_risk_score) = "raise",
                                 components |-> components,
                                 risk_score |-> normalized_risk_score,
                                 confidence |-> overall_confidence,
                                 vulnerability_type |->
                                     determine_vulnerability_type(
                                         event, normalized_risk_score),
                                 recommendation |->
                                     IF overall_confidence > RED_MIN_CONFIDENCE
                                     THEN "INVESTIGATE" ELSE "MONITOR",
                                 should_generate_poc |->
                                     normalized_risk_score >= 250
                                         /\ overall_confidence >= 300 ])))

\* Variant of analyze_entry in which an event whose analysis raised gets no
\* entry.
analyze_entry_skipping(event, env, risk_assessment) ==
    IF risk_assessment.raised THEN <<>>
    ELSE << [ event_id |-> <<event.transaction_hash, event.log_index>>,
              risk_score |-> risk_assessment.risk_score,
              confidence |-> risk_assessment.confidence,
              poc_generated |-> risk_assessment.should_generate_poc
                                    /\ env.poc = "generated",
              outcome |-> "assessed" ] >>

\* analyze_events, the body of the loop for one event from the risk
\* assessment on (red_agent.py:86-140): the entries it appends to results.
\* risk_assessment is what assess_risk did.
analyze_entry(event, env, risk_assessment) ==
    LET event_id == <<event.transaction_hash, event.log_index>>
    IN IF risk_assessment.raised
       THEN << [ event_id |-> event_id, risk_score |-> 0, confidence |-> 0,
                 poc_generated |-> FALSE, outcome |-> "error" ] >>
       ELSE IF risk_assessment.should_generate_poc
       THEN IF env.poc = "generated"
            THEN << [ event_id |-> event_id,
                      risk_score |-> risk_assessment.risk_score,
                      confidence |-> risk_assessment.confidence,
                      poc_generated |-> TRUE, outcome |-> "poc" ] >>
            ELSE << [ event_id |-> event_id,
                      risk_score |-> risk_assessment.risk_score,
                      confidence |-> risk_assessment.confidence,
                      poc_generated |-> FALSE, outcome |-> "PoC generation failed" ] >>
       ELSE << [ event_id |-> event_id,
                 risk_score |-> risk_assessment.risk_score,
                 confidence |-> risk_assessment.confidence,
                 poc_generated |-> FALSE,
                 outcome |-> "Risk score below threshold for PoC generation" ] >>

RECURSIVE count_pocs(_, _)
count_pocs(results, i) ==
    IF i > Len(results) THEN 0
    ELSE (IF results[i].poc_generated THEN 1 ELSE 0) + count_pocs(results, i + 1)

\* a run of analyze_events: where it is (idle before its request arrives,
\* scheduled as a task the webhook created, sleeping at the await of line
\* 87, done), the events posted, whether the webhook started it, what
\* assess_risk did for the events analysed so far, the results gathered so
\* far, and what the caller of the endpoint was answered
red_run_idle ==
    [ pc |-> "idle",     \* idle | scheduled | sleeping | done
      request |-> <<>>, background |-> FALSE,
      assessed |-> <<>>, results |-> <<>>, response |-> None ]

\* the red agent before its first request: PoCGenerator.pocs_generated
\* (poc_generator.py:28), which every run changes, and the runs
red_agent_idle ==
    [ pocs_generated |-> 0, runs |-> [r \in RedRuns |-> red_run_idle] ]

\* what analyze_events returns after its loop (red_agent.py:142-153)
analysis_response(events, results) ==
    [ total_events |-> Len(events),
      analyzed |-> Len(results),
      pocs_generated |-> count_pocs(results, 1),
      results |-> results ]

\* the return of analyze_events reaches the caller of /analyze-events; the
\* webhook has answered already and drops it (red_agent.py:175)
analysis_returned(run, results) ==
    [run EXCEPT !.pc = "done",
                !.response = IF run.background THEN @
                             ELSE analysis_response(run.request, results)]

\* analyze_events from its entry to the await of its first sleep, or to
\* its return when no event was posted (red_agent.py:72-87)
analyze_events(run) ==
    IF Len(run.request) = 0 THEN analysis_returned(run, <<>>)
    ELSE [run EXCEPT !.pc = "sleeping"]

\* analyze_events from the return of the sleep before an event to the next
\* sleep or the return (red_agent.py:87-153): the event is assessed, its
\* PoC generated, its result appended. The event is the one at the
\* position of the loop, one past those assessed so far. generate_poc
\* counts its call before anything else (poc_generator.py:65), whether it
\* then raises or not.
sleep_returns(pocs_generated, run, env, risk_assessment) ==
    Bind(run.results
             \o analyze_entry(run.request[Len(run.assessed) + 1], env, risk_assessment),
         LAMBDA results :
             [ pocs_generated |->
                   IF ~risk_assessment.raised /\ risk_assessment.should_generate_poc
                   THEN pocs_generated + 1 ELSE pocs_generated,
               run |-> IF Len(run.assessed) + 1 = Len(run.request)
                       THEN [analysis_returned(run, results) EXCEPT
                                !.assessed = Append(@, risk_assessment),
                                !.results = results]
                       ELSE [run EXCEPT !.assessed = Append(@, risk_assessment),
                                        !.results = results] ])

\* substream_webhook (red_agent.py:167-177): analyze_events is made a task
\* and the webhook answers at once
substream_webhook(events) ==
    [red_run_idle EXCEPT
        !.pc = "scheduled", !.request = events, !.background = TRUE,
        !.response = [status |-> "received", count |-> Len(events)]]

\* GET /stats (red_agent.py:155-165); risk_analyzer has neither attribute
get_stats(pocs_generated) ==
    [ events_processed |-> 0, pocs_generated |-> pocs_generated,
      high_risk_events |-> 0, uptime |-> "running" ]

\* ------------------------------------------------------------- the system
\* The two pipelines are separate programs that share no state: the phase-2
\* local agents (src/agents) and the hosted agents (src/uagents). A behaviour
\* is a behaviour of one of them.
Deployments == {"phase2", "phase2_sequence", "hosted"}

\* the deployments of the phase-2 coordinator: in "phase2" up to MaxBatches
\* requests are handled, which may overlap, before or after startup, with
\* any outcome of discovery and of the health probes; in "phase2_sequence"
\* up to MaxSequence requests are handled one after another by a
\* coordinator that has started and found both workers, the risk assessor
\* healthy
Phase2Deployments == {"phase2", "phase2_sequence"}

p2_idle ==
    [ pc |-> "idle",                 \* idle | await_event_analyzer | await_risk_assessor | done
      events |-> <<>>,
      request_id |-> <<>>,
      event_analysis_result |-> None,
      exc |-> FALSE,                 \* an exception was raised during the run
      response |-> no_response,
      earlier |-> None ]             \* the request handled before this one

hosted_idle ==
    [ pc |-> "idle",
      event_input |-> None,
      request_id |-> <<>>,
      analysis_response |-> None,
      response |-> [kind |-> "none"] ]

Init ==
    /\ deployment \in Deployments
    /\ agent_state = agent_state_init
    /\ started = FALSE
    /\ now = 0
    /\ p2 = [r \in RunsP2 |-> p2_idle]
    /\ hosted = [h \in RunsHosted |-> hosted_idle]
    /\ calls = [id \in CallIds |-> no_call]
    /\ probed = [role \in Roles |-> "none"]
    /\ agent_errors = 0
    /\ engine = engine_init
    /\ risk_out = risk_assessor_idle
    /\ red_out = red_agent_idle

\* a message that is of neither stage's response type
wrongly_typed_reply == [type |-> "ChatMessage"]

\* what a delegation's history keeps of an outcome of send_and_receive
outcome_label(outcome) ==
    IF outcome.kind = "reply" THEN outcome.msg.type ELSE outcome.kind

\* What send_and_receive may do for a delegation that is awaited: hand back
\* one of the replies the worker sent or a message of another type, time
\* out, or raise.
Outcomes(call) ==
    {[kind |-> "timeout", msg |-> None], [kind |-> "raise", msg |-> None],
     [kind |-> "reply", msg |-> wrongly_typed_reply]}
        \cup {[kind |-> "reply", msg |-> call.replies[i]] : i \in 1..Len(call.replies)}

\* the startup handler is at an await of a health check
startup_awaits == \E role \in Roles : probed[role] = "awaiting"

\* startup_handler from its entry to its first await or its end
\* (phase2_orchestrator.py:86-144): discovery writes the addresses it found
\* (lines 101-128), then the health check loop runs up to its first
\* send_and_receive. found is what the discovery service knows.
Startup(found) ==
    /\ deployment \in Phase2Deployments
    /\ deployment = "phase2_sequence" => \A role \in Roles : found[role]
    /\ ~started
    /\ ~startup_awaits
    /\ LET sub_agents == [role \in Roles |->
                             IF found[role] THEN "agent1q_" \o role ELSE "None"]
           checked == check_all_agents_health(
                          1, sub_agents,
                          [health |-> agent_state.agent_health, probed |-> probed])
       IN /\ agent_state' =
                 [agent_state EXCEPT
                     !.sub_agents = [event_analyzer |-> sub_agents["event_analyzer"],
                                     risk_assessor |-> sub_agents["risk_assessor"]],
                     !.agent_health =
                         [event_analyzer |-> checked.health["event_analyzer"],
                          risk_assessor |-> checked.health["risk_assessor"]]]
          /\ probed' = checked.probed
          /\ started' = (\A role \in Roles : checked.probed[role] # "awaiting")
    /\ UNCHANGED <<deployment, now, p2, hosted, calls, agent_errors, analysis_vars>>

\* startup_handler from the return of the health check of a role to the
\* next await or the end of the handler (lines 144-165). probe is what the
\* send_and_receive of the health check did.
StartupHealthCheckReturns(role, probe) ==
    /\ deployment \in Phase2Deployments
    /\ deployment = "phase2_sequence" => (role = "risk_assessor" => probe = "ok")
    /\ probed[role] = "awaiting"
    /\ LET checked == health_probe_returns(
                          role, agent_state.sub_agents, probe,
                          [health |-> agent_state.agent_health, probed |-> probed])
       IN /\ agent_state' =
                 [agent_state EXCEPT
                     !.agent_health =
                         [event_analyzer |-> checked.health["event_analyzer"],
                          risk_assessor |-> checked.health["risk_assessor"]]]
          /\ probed' = checked.probed
          /\ started' = (\A other \in Roles : checked.probed[other] # "awaiting")
    /\ UNCHANGED <<deployment, now, p2, hosted, calls, agent_errors, analysis_vars>>

\* handle_agent_error (phase2_orchestrator.py:395-399): an AgentError
\* message arrives, from any sender, and is counted in errors_handled, the
\* counter the except clauses of the delegations write too
HandleAgentError ==
    /\ deployment \in Phase2Deployments
    /\ agent_errors < MaxAgentErrors
    /\ agent_errors' = agent_errors + 1
    /\ agent_state' = bump_communication_stat(agent_state, "errors_handled")
    /\ UNCHANGED <<deployment, started, now, p2, hosted, calls, probed, analysis_vars>>

\* a second passes
Tick ==
    /\ deployment \in Phase2Deployments
    /\ now < MaxTime
    /\ now' = now + 1
    /\ UNCHANGED <<deployment, agent_state, started, p2, hosted, calls, probed, agent_errors, analysis_vars>>

\* The history entries of a run's risk delegation once delegate_to_risk_assessor
\* has been entered; risk is what it did before its await.
risk_call_entered(call, risk, health_before) ==
    [call EXCEPT
        !.state = IF risk.act = "send" THEN "awaiting" ELSE "returned",
        !.sends = IF risk.act = "send" THEN 1 ELSE 0,
        !.request = risk.request,
        !.seen_health = health_before,
        !.left_health = risk.st.agent_health,
        !.status = risk.status]

\* analyze_events_endpoint from its entry to its first await or its return
\* (phase2_orchestrator.py:177-201)
\* In "phase2_sequence" a request that arrives when the one before it has
\* returned is followed in the same place, which keeps of the earlier one
\* its request_id, its events and how its event analysis delegation ended.
P2AnalyzeEvents(r, events) ==
    /\ IF deployment = "phase2"
       THEN /\ p2[r].pc = "idle"
            /\ IF r = 1 THEN TRUE ELSE p2[r - 1].pc # "idle"
       ELSE /\ deployment = "phase2_sequence"
            /\ started
            /\ r = 1
            /\ p2[r].pc \in {"idle", "done"}
            /\ agent_state.communication_stats.requests_received < MaxSequence
    /\ LET st1 == bump_communication_stat(agent_state, "requests_received")
           request_id == <<"req", now, Len(events)>>
           pre == delegate_to_event_analyzer_pre(st1, events, request_id)
           ev_id == <<"p2", r, "event_analyzer">>
           risk_id == <<"p2", r, "risk_assessor">>
           earlier == IF p2[r].pc = "idle" THEN None
                      ELSE [ request_id |-> p2[r].request_id,
                             events |-> p2[r].events,
                             status |-> calls[ev_id].status ]
       IN IF pre.act = "send"
          THEN /\ agent_state' = pre.st
               /\ p2' = [p2 EXCEPT ![r] =
                            [p2_idle EXCEPT !.pc = "await_event_analyzer",
                                            !.events = events,
                                            !.request_id = request_id,
                                            !.earlier = earlier]]
               /\ calls' = [calls EXCEPT
                               ![ev_id] =
                                   [no_call EXCEPT !.state = "awaiting", !.sends = 1,
                                                   !.request = pre.request,
                                                   !.seen_health = st1.agent_health,
                                                   !.left_health = pre.st.agent_health],
                               ![risk_id] = no_call]
          ELSE LET nxt == after_event_analyzer(pre, events, request_id)
               IN /\ agent_state' = nxt.st
                  /\ p2' = [p2 EXCEPT ![r] =
                               [p2_idle EXCEPT
                                   !.pc = nxt.pc,
                                   !.events = events,
                                   !.request_id = request_id,
                                   !.exc = pre.exc \/ (nxt.risk # None /\ nxt.risk.exc),
                                   !.response = nxt.response,
                                   !.earlier = earlier]]
                  /\ calls' = [calls EXCEPT
                                  ![ev_id] =
                                      [no_call EXCEPT
                                          !.state = "returned",
                                          !.seen_health = st1.agent_health,
                                          !.left_health = pre.st.agent_health,
                                          !.status = pre.status],
                                  ![risk_id] =
                                      IF nxt.risk = None THEN no_call
                                      ELSE risk_call_entered(no_call, nxt.risk,
                                                             pre.st.agent_health)]
    /\ UNCHANGED <<deployment, started, now, hosted, probed, agent_errors, analysis_vars>>

\* analyze_events_endpoint from the return of a send_and_receive to the next
\* await or the return (lines 284-299 then 193-251, or 333-349 then 200-251)
P2SendAndReceiveReturns(r) ==
    /\ deployment \in Phase2Deployments
    /\ p2[r].pc \in {"await_event_analyzer", "await_risk_assessor"}
    /\ LET stage == IF p2[r].pc = "await_event_analyzer"
                    THEN "event_analyzer" ELSE "risk_assessor"
           id == <<"p2", r, stage>>
           risk_id == <<"p2", r, "risk_assessor">>
       IN \E outcome \in Outcomes(calls[id]) :
            LET d == delegate_post(stage, agent_state, outcome)
            IN IF d.act # "return" /\ retry_on_failure(stage, calls[id].sends)
               THEN /\ calls' = [calls EXCEPT ![id] = [@ EXCEPT !.sends = @ + 1]]
                    /\ UNCHANGED <<deployment, agent_state, p2>>
               ELSE IF stage = "event_analyzer"
               THEN LET nxt == after_event_analyzer(d, p2[r].events, p2[r].request_id)
                    IN /\ agent_state' = nxt.st
                       /\ p2' = [p2 EXCEPT ![r] =
                                    [@ EXCEPT !.pc = nxt.pc,
                                              !.event_analysis_result = d.result,
                                              !.exc = d.exc \/ (nxt.risk # None /\ nxt.risk.exc),
                                              !.response = nxt.response]]
                       /\ calls' = [calls EXCEPT
                                       ![id] = [@ EXCEPT !.state = "returned",
                                                         !.status = d.status,
                                                         !.got = outcome_label(outcome)],
                                       ![risk_id] =
                                           IF nxt.risk = None THEN @
                                           ELSE risk_call_entered(@, nxt.risk,
                                                                  d.st.agent_health)]
               ELSE LET fin == after_risk_assessor(d, p2[r].events, p2[r].request_id,
                                                   p2[r].event_analysis_result)
                    IN /\ agent_state' = fin.st
                       /\ p2' = [p2 EXCEPT ![r] =
                                    [@ EXCEPT !.pc = "done",
                                              !.exc = @ \/ d.exc,
                                              !.response = fin.response]]
                       /\ calls' = [calls EXCEPT ![id] =
                                       [@ EXCEPT !.state = "returned",
                                                 !.status = d.status,
                                                 !.got = outcome_label(outcome)]]
    /\ UNCHANGED <<deployment, started, now, hosted, probed, agent_errors, analysis_vars>>

\* The phase-2 event analyzer's handler, running on a request sent to it,
\* sends its next message (phase2_event_analyzer.py:94-209). The handler
\* awaits every ctx.send (lines 119, 176 or 199, 209), so the coordinator
\* may run between two of its messages. It has taken its except path when
\* the error result is sent.
Phase2EventAnalyzerHandles(r) ==
    LET id == <<"p2", r, "event_analyzer">>
    IN /\ deployment \in Phase2Deployments
       /\ calls[id].sends > 0
       /\ calls[id].request.type \in phase2_handlers("event_analyzer")
       /\ LET h == handle_event_analysis_request(calls[id].request)
              sent == Len(calls[id].replies)
          IN /\ sent < Len(h.replies)
             /\ calls' = [calls EXCEPT ![id] =
                             [@ EXCEPT !.handled = TRUE,
                                       !.failed = h.failed /\ sent >= 1,
                                       !.replies = Append(@, h.replies[sent + 1])]]
       /\ UNCHANGED <<deployment, agent_state, started, now, p2, hosted, probed, agent_errors, analysis_vars>>

\* process_blockchain_event from its entry to its first await
\* (uagents/master_orchestrator.py:65-94); request_id is a fresh uuid4
HostedProcessEvent(h, event_input) ==
    /\ deployment = "hosted"
    /\ hosted[h].pc = "idle"
    /\ IF h = 1 THEN TRUE ELSE hosted[h - 1].pc # "idle"
    /\ LET request_id == <<"uuid", h, 0>>
       IN /\ hosted' = [hosted EXCEPT ![h] =
                           [@ EXCEPT !.pc = "await_event_analyzer",
                                     !.event_input = event_input,
                                     !.request_id = request_id]]
          /\ calls' = [calls EXCEPT ![<<"hosted", h, "event_analyzer">>] =
                          [@ EXCEPT !.state = "awaiting", !.sends = 1,
                                    !.request =
                                        hosted_analysis_request(event_input, request_id)]]
    /\ UNCHANGED <<deployment, agent_state, started, now, p2, probed, agent_errors, analysis_vars>>

\* process_blockchain_event from the return of a send_and_receive to the
\* next await or the return (lines 96-132, 134-173)
HostedSendAndReceiveReturns(h) ==
    /\ deployment = "hosted"
    /\ hosted[h].pc \in {"await_event_analyzer", "await_risk_assessor"}
    /\ LET stage == IF hosted[h].pc = "await_event_analyzer"
                    THEN "event_analyzer" ELSE "risk_assessor"
           id == <<"hosted", h, stage>>
           risk_id == <<"hosted", h, "risk_assessor">>
       IN \E outcome \in Outcomes(calls[id]),
             processing_time \in IF stage = "risk_assessor" THEN ProcessingTimes ELSE {0} :
            LET status == hosted_status(stage, outcome)
            IN IF status # "success" /\ retry_on_failure(stage, calls[id].sends)
               THEN /\ calls' = [calls EXCEPT ![id] = [@ EXCEPT !.sends = @ + 1]]
                    /\ UNCHANGED hosted
               ELSE IF stage = "event_analyzer"
               THEN LET nxt == hosted_after_event_analyzer(
                                   outcome, hosted[h].event_input, hosted[h].request_id)
                    IN /\ hosted' = [hosted EXCEPT ![h] =
                                        [@ EXCEPT !.pc = "await_risk_assessor",
                                                  !.analysis_response =
                                                      nxt.analysis_response]]
                       /\ calls' = [calls EXCEPT
                                       ![id] = [@ EXCEPT !.state = "returned",
                                                         !.status = status,
                                                         !.got = outcome_label(outcome)],
                                       ![risk_id] =
                                           [@ EXCEPT !.state = "awaiting",
                                                     !.sends = 1,
                                                     !.request = nxt.risk_request]]
               ELSE /\ hosted' = [hosted EXCEPT ![h] =
                                     [@ EXCEPT !.pc = "done",
                                               !.response =
                                                   hosted_after_risk_assessor(
                                                       outcome, hosted[h].event_input,
                                                       hosted[h].request_id,
                                                       hosted[h].analysis_response,
                                                       processing_time)]]
                    /\ calls' = [calls EXCEPT ![id] =
                                    [@ EXCEPT !.state = "returned", !.status = status,
                                              !.got = outcome_label(outcome)]]
    /\ UNCHANGED <<deployment, agent_state, started, now, p2, probed, agent_errors, analysis_vars>>

\* A hosted worker's handler runs on a request sent to it
\* (uagents/event_analyzer.py:36-87, uagents/risk_assessor.py:32-97)
HostedWorkerHandles(h, stage, fault) ==
    LET id == <<"hosted", h, stage>>
    IN /\ deployment = "hosted"
       /\ calls[id].sends > 0
       /\ ~calls[id].handled
       /\ LET res == IF stage = "event_analyzer"
                     THEN handle_event_analysis(calls[id].request, fault)
                     ELSE handle_risk_assessment(calls[id].request, fault)
          IN calls' = [calls EXCEPT ![id] =
                          [@ EXCEPT !.handled = TRUE, !.failed = res.failed,
                                    !.replies = res.replies]]
       /\ UNCHANGED <<deployment, agent_state, started, now, p2, hosted, probed, agent_errors, analysis_vars>>

Next ==
    \/ \E found \in [Roles -> BOOLEAN] : Startup(found)
    \/ \E role \in Roles, probe \in Probes : StartupHealthCheckReturns(role, probe)
    \/ HandleAgentError
    \/ Tick
    \/ \E r \in RunsP2, events \in Batches : P2AnalyzeEvents(r, events)
    \/ \E r \in RunsP2 : P2SendAndReceiveReturns(r)
    \/ \E r \in RunsP2 : Phase2EventAnalyzerHandles(r)
    \/ \E h \in RunsHosted, e \in HostedEvents : HostedProcessEvent(h, e)
    \/ \E h \in RunsHosted : HostedSendAndReceiveReturns(h)
    \/ \E h \in RunsHosted, stage \in Roles, fault \in BOOLEAN :
           HostedWorkerHandles(h, stage, fault)

Spec == Init /\ [][Next]_vars

\* ------------------------------------------- the scoring components
\* The risk engine called directly, the phase-2 risk assessor (which owns
\* one engine) and the red agent are more programs that share no state; a
\* behaviour is a behaviour of one of them. "risk_engine" is one call of a
\* new engine, with any event and any answers of the providers;
\* "risk_engine_service" is an engine that lives on, called again and again
\* while time passes, with the events and answers of RepeatedEvents and
\* RepeatedEnvironments. The handlers of the risk assessor and of the red
\* agent are coroutines on one event loop: a run goes on from one await to
\* the next in one step, and between its steps other runs take theirs. In
\* "risk_assessor" and "red_agent" one run is followed through any request;
\* in "risk_assessor_overlapping" and "red_agent_overlapping" up to
\* MaxAssessorRuns and MaxRedRuns runs overlap, on the requests of
\* OverlappingMessages and OverlappingRequests.
AssessorDeployments == {"risk_assessor", "risk_assessor_overlapping"}
RedDeployments == {"red_agent", "red_agent_overlapping"}
ScoringDeployments ==
    {"risk_engine", "risk_engine_service"} \cup AssessorDeployments \cup RedDeployments

\* the seconds the clock may jump between two calls of the engine
ClockSteps == {CACHE_TTL - 1, CACHE_TTL}

\* the events the engine is called with directly
EngineEvents == ProcessedEvents({"0xaaa1"}) \cup {None}

\* the events a long-lived engine is called with: transfers of 5 or of
\* 400000 tokens from the sender
RepeatedEvents ==
    { e \in ProcessedEvents({"0xaaa1"}) :
          /\ e.event_type = "Transfer"
          /\ e.parsed_data.from_address = Sender
          /\ e.parsed_data.to_address = Receiver
          /\ e.parsed_data.amount \in {5, 400000} }

\* what the providers answer to a long-lived engine: either all three
\* answer (a price, the sixty transactions both times, a clean sender) or
\* none does
RepeatedEnvironments ==
    { env \in Environments :
          /\ env.history_again = env.history
          /\ env.history.transaction_count # 1
          /\ env.reputation.indicators = {}
          /\ env.reputation.status # "raise"
          /\ env.price # NoValue <=> env.history.ok
          /\ env.history.ok <=> env.reputation.status = "ok" }

\* the processed events of a message to the risk assessor: transfers of
\* 400000 tokens, with or without a sender, under two transaction hashes
AssessorEvents ==
    { e \in ProcessedEvents({"0xaaa1", "0xbbb2"}) :
          /\ e.event_type = "Transfer"
          /\ e.parsed_data.to_address = Receiver
          /\ e.parsed_data.amount = 400000 }

\* what the providers answer while the risk assessor handles an event: a
\* price, a sanctioned sender, and the same history both times it is asked
AssessorEnvironments ==
    { env \in Environments :
          /\ env.price # NoValue
          /\ env.history_again = env.history
          /\ env.reputation = [status |-> "ok", indicators |-> {"sanctioned"}] }

\* the patterns detect_patterns of the event analyzer reports for an
\* approval of 2**256 - 1 and for a transfer of 400000 tokens
\* (phase2_event_analyzer.py:238-262), the keys the risk assessor reads
unlimited_approval_pattern ==
    [ pattern_type |-> "unlimited_approval",
      description |-> "Unlimited approval detected" ]
large_transfer_pattern ==
    [ pattern_type |-> "large_transfer",
      description |-> "Large transfer detected: 400000000000000000000000 wei" ]

\* patterns_detected of a message: none, one pattern, or the patterns of
\* two events of the batch
AssessorPatterns ==
    { <<>>,
      <<unlimited_approval_pattern>>,
      <<unlimited_approval_pattern, unlimited_approval_pattern>>,
      <<large_transfer_pattern, unlimited_approval_pattern>> }

\* EventAnalysisResult (communication_models.py:20-27) as the risk assessor
\* reads it
AssessorMessages ==
    [ type : {"EventAnalysisResult"},
      processed_events : SeqsUpTo(AssessorEvents, MaxRiskEvents),
      patterns_detected : AssessorPatterns,
      request_id : {"req-1"},
      confidence_score : {800} ]

\* the messages and the answers of the providers of runs that overlap: at
\* most one transfer, no patterns; no history or the sixty transactions
OverlappingMessages ==
    { msg \in AssessorMessages :
          /\ Len(msg.processed_events) <= 1
          /\ msg.patterns_detected = <<>>
          /\ \A i \in 1..Len(msg.processed_events) :
                 msg.processed_events[i].transaction_hash = "0xaaa1" }

OverlappingEnvironments ==
    { env \in AssessorEnvironments : env.history.transaction_count \in {0, 60} }

\* the events of the requests to the red agent that overlap: an approval
\* of 2000 ETH, for which a PoC is generated, and a transfer whose args
\* are a list of one element, whose analysis raises
OverlappingRequests ==
    SeqsUpTo({ e \in CandidateEvent :
                   /\ e.transaction_hash = "0xabc1"
                   /\ \/ e.event_type = "Approval"
                      \/ e.metadata.args.kind = "list" /\ e.metadata.args.items = 1 },
             MaxRedEvents)

InitScoring ==
    /\ deployment \in ScoringDeployments
    /\ agent_state = agent_state_init
    /\ started = FALSE
    /\ now = 0
    /\ p2 = [r \in RunsP2 |-> p2_idle]
    /\ hosted = [h \in RunsHosted |-> hosted_idle]
    /\ calls = [id \in CallIds |-> no_call]
    /\ probed = [role \in Roles |-> "none"]
    /\ agent_errors = 0
    /\ engine = engine_init
    /\ risk_out = risk_assessor_idle
    /\ red_out = red_agent_idle

coordinator_vars == <<agent_state, started, p2, hosted, calls, probed, agent_errors>>

\* EnhancedRiskEngine.assess_comprehensive_risk called once (lines 94-179)
EngineAssess(processed_event, env) ==
    /\ \/ deployment = "risk_engine" /\ engine.last = None
       \/ /\ deployment = "risk_engine_service"
          /\ processed_event \in RepeatedEvents
          /\ env \in RepeatedEnvironments
    /\ \E r \in {assess_comprehensive_risk([engine EXCEPT !.reads = <<>>],
                                           processed_event, env, now)} :
           engine' = [r.eng EXCEPT
                        !.input = [ processed_event |-> processed_event,
                                    env |-> env, at |-> now ],
                        !.last = r.assessment]
    /\ UNCHANGED <<deployment, now, coordinator_vars, risk_out, red_out>>

\* time passes between two calls of the engine
ClockAdvances(d) ==
    /\ deployment = "risk_engine_service"
    /\ now + d <= MaxClock
    /\ now' = now + d
    /\ UNCHANGED <<deployment, coordinator_vars, analysis_vars>>

\* a message arrives at the risk assessor and handle_event_analysis_result
\* runs up to its first await (phase2_risk_assessor.py:99-126)
RiskAssessorHandles(r, msg) ==
    /\ deployment \in AssessorDeployments
    /\ deployment = "risk_assessor" => r = 1
    /\ deployment = "risk_assessor_overlapping" => msg \in OverlappingMessages
    /\ risk_out.runs[r].pc = "idle"
    /\ \E h \in {handle_event_analysis_result(risk_out.agent_state, msg)} :
           risk_out' = [ agent_state |-> h.st,
                         runs |-> [risk_out.runs EXCEPT ![r] = h.run] ]
    /\ UNCHANGED <<deployment, now, coordinator_vars, engine, red_out>>

\* the ctx.send of the acknowledgment returns or raises, and the run goes
\* on to its next await (phase2_risk_assessor.py:126-200, 211-225)
RiskAssessorAcknowledgmentSent(r, raises) ==
    /\ deployment \in AssessorDeployments
    /\ risk_out.runs[r].pc = "await_acknowledgment"
    /\ \E envs \in [1..Len(risk_out.runs[r].request.processed_events) ->
                       IF deployment = "risk_assessor"
                       THEN AssessorEnvironments ELSE OverlappingEnvironments] :
           \E h \in {acknowledgment_sent(engine, risk_out.agent_state,
                                         risk_out.runs[r], envs, now, raises)} :
               /\ engine' = h.eng
               /\ risk_out' = [ agent_state |-> h.st,
                                runs |-> [risk_out.runs EXCEPT ![r] = h.run] ]
    /\ UNCHANGED <<deployment, now, coordinator_vars, red_out>>

\* the ctx.send of the result returns or raises
\* (phase2_risk_assessor.py:200-225)
RiskAssessorResultSent(r, raises) ==
    /\ deployment \in AssessorDeployments
    /\ risk_out.runs[r].pc = "await_result"
    /\ \E h \in {result_sent(risk_out.agent_state, risk_out.runs[r], raises)} :
           risk_out' = [ agent_state |-> h.st,
                         runs |-> [risk_out.runs EXCEPT ![r] = h.run] ]
    /\ UNCHANGED <<deployment, now, coordinator_vars, engine, red_out>>

\* the ctx.send of the error result returns or raises
\* (phase2_risk_assessor.py:225-235)
RiskAssessorErrorResultSent(r, raises) ==
    /\ deployment \in AssessorDeployments
    /\ risk_out.runs[r].pc = "await_error_result"
    /\ risk_out' = [risk_out EXCEPT !.runs[r] = error_result_sent(@, raises)]
    /\ UNCHANGED <<deployment, now, coordinator_vars, engine, red_out>>

\* the ctx.send of the AgentError returns or raises
\* (phase2_risk_assessor.py:235)
RiskAssessorErrorNotificationSent(r, raises) ==
    /\ deployment \in AssessorDeployments
    /\ risk_out.runs[r].pc = "await_error_notification"
    /\ risk_out' = [risk_out EXCEPT !.runs[r] = error_notification_sent(@, raises)]
    /\ UNCHANGED <<deployment, now, coordinator_vars, engine, red_out>>

\* POST /analyze-events of the red agent: analyze_events runs up to its
\* first await (red_agent.py:72-87)
RedAnalyzeEvents(r, events) ==
    /\ deployment \in RedDeployments
    /\ deployment = "red_agent" => r = 1
    /\ deployment = "red_agent_overlapping" => events \in OverlappingRequests
    /\ red_out.runs[r].pc = "idle"
    /\ red_out' = [red_out EXCEPT
                      !.runs[r] = analyze_events([red_run_idle EXCEPT !.request = events])]
    /\ UNCHANGED <<deployment, now, coordinator_vars, engine, risk_out>>

\* POST /webhook/substream of the red agent (red_agent.py:167-177)
RedSubstreamWebhook(r, events) ==
    /\ deployment \in RedDeployments
    /\ deployment = "red_agent" => r = 1
    /\ deployment = "red_agent_overlapping" => events \in OverlappingRequests
    /\ red_out.runs[r].pc = "idle"
    /\ red_out' = [red_out EXCEPT !.runs[r] = substream_webhook(events)]
    /\ UNCHANGED <<deployment, now, coordinator_vars, engine, risk_out>>

\* the task the webhook created starts: analyze_events runs up to its
\* first await (red_agent.py:72-87)
RedTaskStarts(r) ==
    /\ deployment \in RedDeployments
    /\ red_out.runs[r].pc = "scheduled"
    /\ red_out' = [red_out EXCEPT !.runs[r] = analyze_events(@)]
    /\ UNCHANGED <<deployment, now, coordinator_vars, engine, risk_out>>

\* the sleep before the next event of a run returns and the run goes on to
\* its next sleep or its return (red_agent.py:87-153)
RedSleepReturns(r, env) ==
    /\ deployment \in RedDeployments
    /\ red_out.runs[r].pc = "sleeping"
    /\ \E h \in {sleep_returns(
                      red_out.pocs_generated, red_out.runs[r], env,
                      assess_risk(red_out.runs[r].request[Len(red_out.runs[r].assessed) + 1],
                                  env))} :
           red_out' = [ pocs_generated |-> h.pocs_generated,
                        runs |-> [red_out.runs EXCEPT ![r] = h.run] ]
    /\ UNCHANGED <<deployment, now, coordinator_vars, engine, risk_out>>

NextScoring ==
    \/ \E processed_event \in EngineEvents, env \in Environments :
           EngineAssess(processed_event, env)
    \/ \E d \in ClockSteps : ClockAdvances(d)
    \/ \E r \in AssessorRuns, msg \in AssessorMessages : RiskAssessorHandles(r, msg)
    \/ \E r \in AssessorRuns, raises \in BOOLEAN :
           RiskAssessorAcknowledgmentSent(r, raises)
    \/ \E r \in AssessorRuns, raises \in BOOLEAN : RiskAssessorResultSent(r, raises)
    \/ \E r \in AssessorRuns, raises \in BOOLEAN :
           RiskAssessorErrorResultSent(r, raises)
    \/ \E r \in AssessorRuns, raises \in BOOLEAN :
           RiskAssessorErrorNotificationSent(r, raises)
    \/ \E r \in RedRuns, events \in SeqsUpTo(CandidateEvent, MaxRedEvents) :
           RedAnalyzeEvents(r, events)
    \/ \E r \in RedRuns, events \in SeqsUpTo(CandidateEvent, MaxRedEvents) :
           RedSubstreamWebhook(r, events)
    \/ \E r \in RedRuns : RedTaskStarts(r)
    \/ \E r \in RedRuns, env \in RedEnvironments : RedSleepReturns(r, env)

SpecScoring == InitScoring /\ [][NextScoring]_vars

\* ---------------------------------------------------------- properties
P2Ev(r) == calls[<<"p2", r, "event_analyzer">>]
P2Risk(r) == calls[<<"p2", r, "risk_assessor">>]
HostedEv(h) == calls[<<"hosted", h, "event_analyzer">>]
HostedRisk(h) == calls[<<"hosted", h, "risk_assessor">>]
P2CallIds == {"p2"} \X RunsP2 \X Roles

\* the ways a delegation fails (timeout, unhealthy worker, error)
FailedStatuses == {"timeout", "unhealthy", "error"}

\* C1: an exception raised while analyze_events_endpoint processes a batch
\* never leaves the operation: every finished run has returned a response,
\* and a run during which an exception was raised has returned an error
\* response (status "error") that carries an error message.
C1_ExceptionEndsInErrorResponse ==
    \A r \in RunsP2 :
        p2[r].pc = "done" =>
            /\ p2[r].response.kind = "returned"
            /\ p2[r].exc =>
                   /\ p2[r].response.status = "error"
                   /\ p2[r].response.acknowledgment.status = "error"
                   /\ p2[r].response.acknowledgment.message # ""
                   /\ p2[r].response.summary.error
                          = p2[r].response.acknowledgment.message

\* a finished run during which send_and_receive raised
C1_Witness ==
    \E r \in RunsP2 :
        /\ p2[r].pc = "done"
        /\ p2[r].exc
        /\ p2[r].response.status = "error"

\* C2: a run whose event analysis delegation failed (timeout, unhealthy,
\* error) still proceeds to the risk stage, on processed events that a local
\* pass-through produced: the run holds an event analysis result and has
\* entered the risk delegation.
C2_FallbackThenRiskStage ==
    \A r \in RunsP2 :
        (p2[r].pc = "done" /\ P2Ev(r).status \in FailedStatuses) =>
            /\ P2Risk(r).state # "none"
            /\ p2[r].event_analysis_result # None

\* What the code does (phase2_orchestrator.py:193-194): the run ends at the
\* event stage with the error response "Event analysis failed", without an
\* event analysis result and without entering the risk stage.
FailedEventStageEndsRun ==
    \A r \in RunsP2 :
        (p2[r].pc = "done" /\ P2Ev(r).status \in FailedStatuses) =>
            /\ p2[r].response.kind = "returned"
            /\ p2[r].response.status = "error"
            /\ p2[r].response.acknowledgment.message = "Event analysis failed"
            /\ p2[r].response.acknowledgment.events_received = 0
            /\ p2[r].event_analysis_result = None
            /\ P2Risk(r).state = "none"
            /\ P2Risk(r).sends = 0

\* a finished run of a non-empty batch whose event analysis timed out
EventAnalysisTimedOut ==
    \E r \in RunsP2 :
        /\ p2[r].pc = "done"
        /\ p2[r].events # <<>>
        /\ P2Ev(r).status = "timeout"

\* C3: a run whose risk delegation failed (unhealthy, timeout, error) still
\* returns the assessments of its processed events: its response is not the
\* error response.
C3_LocalAssessmentsReturned ==
    \A r \in RunsP2 :
        (p2[r].pc = "done" /\ P2Risk(r).status \in FailedStatuses) =>
            /\ p2[r].response.kind = "returned"
            /\ p2[r].response.status # "error"

\* What the code does (phase2_orchestrator.py:200-201, 305-307): a run that
\* finds the risk worker not healthy sends it nothing and returns the error
\* response "Risk assessment failed", with no assessment of any event.
UnhealthyRiskWorkerEndsRun ==
    \A r \in RunsP2 :
        (p2[r].pc = "done" /\ P2Risk(r).status = "unhealthy") =>
            /\ P2Risk(r).sends = 0
            /\ p2[r].response.kind = "returned"
            /\ p2[r].response.status = "error"
            /\ p2[r].response.acknowledgment.message = "Risk assessment failed"
            /\ p2[r].response.acknowledgment.events_received = 0

\* a finished run whose event stage succeeded and whose risk worker was
\* not healthy
RiskWorkerUnhealthy ==
    \E r \in RunsP2 :
        /\ p2[r].pc = "done"
        /\ P2Ev(r).status = "success"
        /\ P2Risk(r).status = "unhealthy"

\* the risk worker was healthy when run r delegated to it
RiskHealthyAtDelegation(r) ==
    /\ P2Risk(r).seen_health # None
    /\ P2Risk(r).seen_health.risk_assessor = "healthy"

\* C4: with both workers healthy, every finished run whose event stage
\* succeeded has sent one risk request, carrying the run's request_id, to
\* the risk worker.
C4_RiskRequestSent ==
    \A r \in RunsP2 :
        (p2[r].pc = "done" /\ P2Ev(r).status = "success" /\ RiskHealthyAtDelegation(r)) =>
            /\ P2Risk(r).sends = 1
            /\ P2Risk(r).request # None
            /\ P2Risk(r).request.request_id = p2[r].request_id

\* C6: a delegation whose worker failed while handling the request never
\* ends with status success.
C6_FailedWorkerIsNotSuccess ==
    \A id \in CallIds : calls[id].failed => calls[id].status # "success"

\* the handler of the phase-2 event analyzer has run to its end on the
\* request of a delegation: it has sent all it sends for it
P2HandlerFinished(id) ==
    /\ calls[id].handled
    /\ Len(calls[id].replies) = Len(handle_event_analysis_request(calls[id].request).replies)

\* C7: what a phase-2 worker sent for a request it handled is one
\* acknowledgment carrying the request_id, then exactly one message, a typed
\* result or a typed error, with the same request_id.
C7_AckThenOneResultOrError ==
    \A id \in P2CallIds :
        P2HandlerFinished(id) =>
            /\ Len(calls[id].replies) = 2
            /\ calls[id].replies[1].type = "AgentAcknowledgment"
            /\ calls[id].replies[1].request_id = calls[id].request.request_id
            /\ calls[id].replies[2].type \in {response_type(id[3]), "AgentError"}
            /\ calls[id].replies[2].request_id = calls[id].request.request_id

\* C8: a phase-2 delegation that found its worker's health other than
\* "healthy" sent no message to the worker (status unhealthy), and the
\* pre-flight read left every health entry as it found it.
C8_UnhealthyWorkerGetsNoMessage ==
    \A id \in P2CallIds :
        calls[id].seen_health # None =>
            /\ calls[id].left_health = calls[id].seen_health
            /\ calls[id].seen_health[id[3]] # "healthy" =>
                   /\ calls[id].sends = 0
                   /\ calls[id].request = None
                   /\ calls[id].replies = <<>>
                   /\ calls[id].status = "unhealthy"

\* a risk delegation that found the risk worker's health other than healthy
C8_Witness ==
    \E r \in RunsP2 :
        /\ P2Risk(r).state = "returned"
        /\ P2Risk(r).seen_health # None
        /\ P2Risk(r).seen_health.risk_assessor \in {"unhealthy", "unreachable", "not_found", "unknown"}
        /\ P2Ev(r).sends = 1

\* C9: within one run, the risk worker is sent a request only after the
\* run's event stage has returned, and the request carries the output of
\* that event stage: the worker's reply when the stage succeeded, the
\* fallback otherwise (hosted coordinator); the reply's processed events and
\* patterns (phase-2 coordinator).
C9_RiskRequestCarriesEventStageOutput ==
    /\ \A r \in RunsP2 :
           /\ P2Risk(r).state # "none" => P2Ev(r).state = "returned"
           /\ P2Risk(r).sends > 0 =>
                  /\ P2Ev(r).status = "success"
                  /\ P2Risk(r).request.processed_events
                         = p2[r].event_analysis_result.processed_events
                  /\ P2Risk(r).request.patterns_detected
                         = p2[r].event_analysis_result.patterns_detected
    /\ \A h \in RunsHosted :
           /\ HostedRisk(h).state # "none" => HostedEv(h).state = "returned"
           /\ HostedRisk(h).sends > 0 =>
                  /\ HostedRisk(h).request.request_id = hosted[h].request_id
                  /\ HostedRisk(h).request.event_analysis = hosted[h].analysis_response
                  /\ IF HostedEv(h).status = "success"
                     THEN \E i \in 1..Len(HostedEv(h).replies) :
                              HostedEv(h).replies[i] = HostedRisk(h).request.event_analysis
                     ELSE HostedRisk(h).request.event_analysis
                              = fallback_analysis(hosted[h].event_input,
                                                  hosted[h].request_id)

\* a hosted run whose risk request carries the event analyzer's reply
C9_Witness ==
    \E h \in RunsHosted :
        /\ HostedRisk(h).sends = 1
        /\ HostedEv(h).status = "success"
        /\ HostedRisk(h).request.event_analysis.analysis = "Analyzed"

\* C10: within one run each stage worker is sent at most one request: a
\* delegation that timed out, raised or got a wrongly typed reply is not
\* attempted again.
C10_AtMostOneRequestPerStage ==
    \A id \in CallIds :
        /\ calls[id].sends <= 1
        /\ (calls[id].state = "returned" /\ calls[id].status \in {"timeout", "error"}
              /\ calls[id].seen_health # None /\ calls[id].seen_health[id[3]] = "healthy"
              /\ id[3] = "event_analyzer")
               => calls[id].sends = 1

\* a phase-2 event delegation that ended on a wrongly typed reply (the
\* acknowledgment) after its one request
C10_Witness ==
    \E r \in RunsP2 :
        /\ P2Ev(r).state = "returned"
        /\ P2Ev(r).status = "error"
        /\ P2Ev(r).handled
        /\ ~p2[r].exc
        /\ P2Ev(r).sends = 1

\* C12: a hosted run is never ended by a worker that does not answer as
\* expected. Whether send_and_receive timed out, raised or handed back a
\* message of another type, for either worker, the run goes on: a failed
\* event stage is replaced by the fallback analysis and the risk worker is
\* still asked, a failed risk stage is replaced by the fallback assessment,
\* and the run returns a response whose overall_status is SUCCESS.
C12_HostedRunSurvivesWorkerFailure ==
    \A h \in RunsHosted :
        /\ (HostedEv(h).state = "returned" /\ HostedEv(h).status # "success") =>
               /\ hosted[h].pc \in {"await_risk_assessor", "done"}
               /\ hosted[h].analysis_response
                      = fallback_analysis(hosted[h].event_input, hosted[h].request_id)
               /\ HostedRisk(h).sends = 1
        /\ hosted[h].pc = "done" =>
               /\ hosted[h].response.kind = "returned"
               /\ hosted[h].response.overall_status = "SUCCESS"
               /\ hosted[h].response.event_analysis.analysis
                      = hosted[h].analysis_response.analysis
               /\ HostedRisk(h).status # "success" =>
                      /\ hosted[h].response.risk_assessment.risk_level
                             = fallback_risk(hosted[h].request_id).risk_level
                      /\ hosted[h].response.risk_assessment.risk_score
                             = fallback_risk(hosted[h].request_id).risk_score
                      /\ hosted[h].response.risk_assessment.risk_factors
                             = fallback_risk(hosted[h].request_id).risk_factors
        /\ (HostedEv(h).state = "returned" /\ HostedRisk(h).state = "returned")
               => hosted[h].pc = "done"

\* a finished hosted run whose event stage got a wrongly typed message and
\* whose risk stage timed out
C12_Witness ==
    \E h \in RunsHosted :
        /\ hosted[h].pc = "done"
        /\ HostedEv(h).got = "ChatMessage"
        /\ HostedRisk(h).got = "timeout"
        /\ hosted[h].response.overall_status = "SUCCESS"

\* a finished hosted run whose risk stage raised
C12_WitnessRaise ==
    \E h \in RunsHosted :
        /\ hosted[h].pc = "done"
        /\ HostedRisk(h).got = "raise"

\* C20: after the startup health check every role's recorded health is one
\* of healthy, unhealthy, unreachable, not_found: not_found exactly when
\* discovery gave no address for the role, healthy exactly when its probe
\* returned success with a health response, unreachable exactly when its
\* probe raised, unhealthy otherwise; and every role that has an address is
\* probed, whatever the probe of another role did.
C20_HealthStatusFromProbe ==
    started =>
        \A role \in Roles :
            LET health == agent_state.agent_health[role]
                address == agent_state.sub_agents[role]
            IN /\ health \in {"healthy", "unhealthy", "unreachable", "not_found"}
               /\ health = "not_found" <=> address = "None"
               /\ address = "None" <=> probed[role] = "not_sent"
               /\ address # "None" => probed[role] \in Probes
               /\ health = "healthy" <=> probed[role] = "ok"
               /\ health = "unreachable" <=> probed[role] = "raise"
               /\ health = "unhealthy" <=> probed[role] = "bad"

\* the first role's probe raised and the second role was probed and is healthy
C20_Witness ==
    /\ started
    /\ agent_state.agent_health["event_analyzer"] = "unreachable"
    /\ probed["risk_assessor"] = "ok"
    /\ agent_state.agent_health["risk_assessor"] = "healthy"

\* run r of the risk assessor's handler has sent a RiskAssessmentResult for
\* its message: the result of its loop, or the error result of its except
\* clause
RiskAssessorAnswered(r) ==
    /\ deployment \in AssessorDeployments
    /\ \E i \in 1..Len(risk_out.runs[r].sent) :
           risk_out.runs[r].sent[i].type = "RiskAssessmentResult"

\* that RiskAssessmentResult (a run sends at most one)
RiskAssessorResult(r) ==
    risk_out.runs[r].sent[CHOOSE i \in 1..Len(risk_out.runs[r].sent) :
                              risk_out.runs[r].sent[i].type = "RiskAssessmentResult"]

\* run r of the risk assessor's handler has come to its end without
\* entering its except clause: it sent the acknowledgment and the result
\* of its loop
RiskAssessorCompleted(r) ==
    /\ deployment \in AssessorDeployments
    /\ risk_out.runs[r].pc = "done"
    /\ ~risk_out.runs[r].caught

\* entry i of the list refers to event i of the processed events, and the
\* list has as many entries as there are events
one_per_event_in_order(risk_assessments, processed_events) ==
    /\ Len(risk_assessments) = Len(processed_events)
    /\ \A i \in 1..Len(processed_events) :
           /\ risk_assessments[i].transaction_hash = processed_events[i].transaction_hash
           /\ risk_assessments[i].event_type = processed_events[i].event_type

\* run r of /analyze-events of the red agent has returned to its caller
RedAnswered(r) ==
    /\ deployment \in RedDeployments
    /\ red_out.runs[r].pc = "done"
    /\ ~red_out.runs[r].background

\* once the red agent has answered a request to /analyze-events, results
\* are as many as the events posted, analyzed and total_events say so, and
\* entry i bears the event_id of event i
RedResultsInOrder ==
    \A r \in RedRuns :
        RedAnswered(r) =>
            LET events == red_out.runs[r].request
                results == red_out.runs[r].response.results
            IN /\ Len(results) = Len(events)
               /\ red_out.runs[r].response.total_events = Len(events)
               /\ red_out.runs[r].response.analyzed = Len(events)
               /\ \A i \in 1..Len(events) :
                      results[i].event_id
                          = <<events[i].transaction_hash, events[i].log_index>>

C11_ErrorResultSent ==
    /\ RiskAssessorAnswered(1)
    /\ risk_out.runs[1].caught
    /\ Len(risk_out.runs[1].request.processed_events) = 2
    /\ Len(risk_out.runs[1].sent) >= 2
    /\ risk_out.runs[1].sent[1].type = "AgentAcknowledgment"

\* The risk assessor handled two events with different hashes, and the
\* behavioural analysis of the first one failed.
C11_WitnessRiskAssessor ==
    /\ RiskAssessorCompleted(1)
    /\ Len(risk_out.runs[1].request.processed_events) = 2
    /\ risk_out.runs[1].request.processed_events[1].transaction_hash
           # risk_out.runs[1].request.processed_events[2].transaction_hash
    /\ analysis_error("cannot access local variable 'value_ratio' where it is not associated with a value").factors
           \subseteq RiskAssessorResult(1).risk_assessments[1].factors

\* the two float quotients of the last assessment of the ordinary return
\* path, total_score / total_weight and the mean of the confidences, are
\* below the float next above 1.0: rounding does not carry them over 1.0
QuotientsAtMostOne ==
    (engine.last # None /\ engine.input.processed_event # None) =>
        LET risk_components == engine.last.details.risk_components
            categories == invoked_categories(engine.input.processed_event.event_type)
        IN /\ quotient_below(
                  total_score_binary64(risk_components, categories, 1, zeros(6)),
                  total_weight_of(categories), successor(binary64_one))
           /\ quotient_below(
                  confidence_sum_binary64(risk_components, categories, 1, zeros(6)),
                  binary64_counts[Len(categories)], successor(binary64_one))

\* C13: every assessment assess_comprehensive_risk returns has its
\* overall_score and its confidence between 0 and 1 (0 and 1000
\* thousandths, and as floats not above 1.0), on the ordinary return path
\* and on the except path, whichever analyzers failed; so has every entry
\* the risk assessor builds from one.
C13_ScoreAndConfidenceInRange ==
    /\ engine.last # None =>
           /\ engine.last.overall_score \in 0..1000
           /\ engine.last.confidence \in 0..1000
    /\ QuotientsAtMostOne
    /\ \A r \in AssessorRuns :
           RiskAssessorAnswered(r) =>
               \A i \in 1..Len(RiskAssessorResult(r).risk_assessments) :
                   /\ RiskAssessorResult(r).risk_assessments[i].risk_score \in 0..1000
                   /\ RiskAssessorResult(r).risk_assessments[i].confidence \in 0..1000

\* The engine assessed a transfer of 400000 tokens whose sender has sixty
\* transactions of one token each behind it: the sum of the anomaly terms
\* is above 1 before it is capped.
C13_Witness ==
    /\ deployment = "risk_engine"
    /\ engine.last # None
    /\ engine.input.processed_event # None
    /\ engine.input.processed_event.parsed_data.from_address = Sender
    /\ engine.input.processed_event.parsed_data.amount = 400000
    /\ engine.input.env.history.transaction_count = 60
    /\ engine.last.details.risk_components["behavioral_anomaly"].score = 1000

\* The engine was called with no event and returned through its except
\* clause.
C13_WitnessExceptPath ==
    /\ engine.last # None
    /\ engine.input.processed_event = None
    /\ engine.last = assessment_error

\* The behavioural analyzer failed during the assessment.
C13_WitnessAnalyzerFailed ==
    /\ engine.last # None
    /\ engine.last # assessment_error
    /\ engine.last.details.risk_components["behavioral_anomaly"]
           = analysis_error("cannot access local variable 'value_ratio' where it is not associated with a value")

\* C14: every assessment the engine returns, on every return path, has the
\* recommendation MONITOR when its confidence is below MIN_CONFIDENCE, and
\* otherwise the recommendation its score commands: CRITICAL_INVESTIGATION
\* from CRITICAL_RISK_THRESHOLD, IMMEDIATE_INVESTIGATION from
\* HIGH_RISK_THRESHOLD, INVESTIGATE from 0.5, else MONITOR.
C14_RecommendationFollowsConfidenceAndScore ==
    engine.last # None =>
        engine.last.recommendation =
            IF engine.last.confidence < MIN_CONFIDENCE THEN "MONITOR"
            ELSE IF engine.last.overall_score >= CRITICAL_RISK_THRESHOLD
            THEN "CRITICAL_INVESTIGATION"
            ELSE IF engine.last.overall_score >= HIGH_RISK_THRESHOLD
            THEN "IMMEDIATE_INVESTIGATION"
            ELSE IF engine.last.overall_score >= 500 THEN "INVESTIGATE"
            ELSE "MONITOR"

\* The same rule, for the assessments of the ordinary return path only.
C14_RuleOnOrdinaryPath ==
    (engine.last # None /\ engine.last # assessment_error) =>
        engine.last.recommendation =
            IF engine.last.confidence < MIN_CONFIDENCE THEN "MONITOR"
            ELSE IF engine.last.overall_score >= CRITICAL_RISK_THRESHOLD
            THEN "CRITICAL_INVESTIGATION"
            ELSE IF engine.last.overall_score >= HIGH_RISK_THRESHOLD
            THEN "IMMEDIATE_INVESTIGATION"
            ELSE IF engine.last.overall_score >= 500 THEN "INVESTIGATE"
            ELSE "MONITOR"

\* An assessment of the except path: confidence 0.1, INVESTIGATE.
C14_ExceptPathInvestigates ==
    /\ engine.last # None
    /\ engine.last.confidence < MIN_CONFIDENCE
    /\ engine.last.recommendation = "INVESTIGATE"

\* the five categories, and the terms of the weighted mean of the
\* components an assessment reports
AllCategories ==
    { "financial_impact", "behavioral_anomaly", "reputation_risk",
      "historical_context", "approval_risk" }

ReportedScoreTimesWeight(category) ==
    IF category \in DOMAIN engine.last.details.risk_components
    THEN engine.last.details.risk_components[category].score * risk_weights[category]
    ELSE 0

ReportedWeight(category) ==
    IF category \in DOMAIN engine.last.details.risk_components
    THEN risk_weights[category] ELSE 0

\* C15 as stated: in an assessment of the ordinary return path the
\* components are those of exactly the invoked categories (all five for an
\* Approval event, all but approval_risk otherwise), and overall_score is
\* the sum of score times weight over them divided by the sum of their
\* weights (to the thousandth); so when all of them have the same score,
\* that score is the overall score.
C15_WeightedMeanOverInvokedCategories ==
    (engine.last # None /\ engine.input.processed_event # None) =>
        LET risk_components == engine.last.details.risk_components
            num == ReportedScoreTimesWeight("financial_impact")
                       + ReportedScoreTimesWeight("behavioral_anomaly")
                       + ReportedScoreTimesWeight("reputation_risk")
                       + ReportedScoreTimesWeight("historical_context")
                       + ReportedScoreTimesWeight("approval_risk")
            den == ReportedWeight("financial_impact")
                       + ReportedWeight("behavioral_anomaly")
                       + ReportedWeight("reputation_risk")
                       + ReportedWeight("historical_context")
                       + ReportedWeight("approval_risk")
        IN /\ DOMAIN risk_components =
                  IF engine.input.processed_event.event_type = "Approval"
                  THEN AllCategories ELSE AllCategories \ {"approval_risk"}
           /\ engine.last.overall_score * den <= num
           /\ num < (engine.last.overall_score + 1) * den
           /\ \A s \in 0..1000 :
                  (\A c \in DOMAIN risk_components : risk_components[c].score = s)
                      => engine.last.overall_score = s

\* C15, amended: the components are those of exactly the invoked
\* categories, and overall_score is the quotient of the two sums as binary64
\* arithmetic gives it: the quotient to the thousandth, or, where the
\* quotient is a whole number of thousandths, possibly a float just below
\* it. So when all components have the score s, overall_score is s up to
\* the rounding of the float arithmetic.
C15_WeightedMeanUpToRounding ==
    (engine.last # None /\ engine.input.processed_event # None) =>
        LET risk_components == engine.last.details.risk_components
            num == ReportedScoreTimesWeight("financial_impact")
                       + ReportedScoreTimesWeight("behavioral_anomaly")
                       + ReportedScoreTimesWeight("reputation_risk")
                       + ReportedScoreTimesWeight("historical_context")
                       + ReportedScoreTimesWeight("approval_risk")
            den == ReportedWeight("financial_impact")
                       + ReportedWeight("behavioral_anomaly")
                       + ReportedWeight("reputation_risk")
                       + ReportedWeight("historical_context")
                       + ReportedWeight("approval_risk")
        IN /\ DOMAIN risk_components =
                  IF engine.input.processed_event.event_type = "Approval"
                  THEN AllCategories ELSE AllCategories \ {"approval_risk"}
           /\ engine.last.overall_score * den <= num
           /\ num <= (engine.last.overall_score + 1) * den
           /\ \A s \in 0..1000 :
                  (\A c \in DOMAIN risk_components : risk_components[c].score = s)
                      => engine.last.overall_score \in {s - 1, s}

\* A transfer without amount and without sender was assessed: approval_risk
\* was skipped, the four invoked analyzers all returned 0.3, and the
\* overall score is 0.29999999999999993, just below 0.3.
C15_Witness ==
    /\ engine.last # None
    /\ engine.input.processed_event # None
    /\ engine.input.processed_event.event_type = "Transfer"
    /\ DOMAIN engine.last.details.risk_components = AllCategories \ {"approval_risk"}
    /\ \A c \in DOMAIN engine.last.details.risk_components :
           engine.last.details.risk_components[c].score = 300
    /\ engine.last.overall_score = 299

\* An approval was assessed whose five components do not all have the same
\* score.
C15_WitnessApproval ==
    /\ engine.last # None
    /\ engine.input.processed_event # None
    /\ engine.input.processed_event.event_type = "Approval"
    /\ engine.last.details.risk_components["approval_risk"].score
           # engine.last.details.risk_components["financial_impact"].score

\* C16: the risk_score assess_risk of the red agent returns is the sum of
\* score times weight over the three categories the call invoked (financial
\* impact, anomaly, historical context) divided by the sum of the weights of
\* those three (to the thousandth), not by the sum of the declared weight
\* table; so three equal scores give that score.
C16_NormalizedByInvokedWeights ==
    \A r \in RedRuns :
        \A i \in 1..Len(red_out.runs[r].assessed) :
            LET a == red_out.runs[r].assessed[i]
                num == a.components["financial_impact"].score
                           * red_risk_weights["financial_impact"]
                       + a.components["anomaly_score"].score
                           * red_risk_weights["anomaly_score"]
                       + a.components["historical_context"].score
                           * red_risk_weights["historical_context"]
                den == red_risk_weights["financial_impact"]
                           + red_risk_weights["anomaly_score"]
                           + red_risk_weights["historical_context"]
            IN ~a.raised =>
                   /\ a.risk_score * den <= num
                   /\ num < (a.risk_score + 1) * den
                   /\ (/\ a.components["financial_impact"].score
                              = a.components["anomaly_score"].score
                       /\ a.components["anomaly_score"].score
                              = a.components["historical_context"].score)
                          => a.risk_score = a.components["financial_impact"].score

\* What the code computes: the same sum divided by the sum of the whole
\* weight table, 0.9.
C16_NormalizedByDeclaredWeights ==
    \A r \in RedRuns :
        \A i \in 1..Len(red_out.runs[r].assessed) :
            LET a == red_out.runs[r].assessed[i]
                num == a.components["financial_impact"].score
                           * red_risk_weights["financial_impact"]
                       + a.components["anomaly_score"].score
                           * red_risk_weights["anomaly_score"]
                       + a.components["historical_context"].score
                           * red_risk_weights["historical_context"]
            IN /\ a.risk_score * 90 <= num
               /\ num < (a.risk_score + 1) * 90

\* A transfer of 5 ETH on a known contract was assessed: components 0.3,
\* 0.2 and 0.3, risk_score 0.166 where the mean over the invoked weights is
\* 0.272.
C16_TransferScoredTooLow ==
    /\ Len(red_out.runs[1].assessed) >= 1
    /\ red_out.runs[1].request[1].event_type = "Transfer"
    /\ red_out.runs[1].request[1].metadata.args
           = [kind |-> "dict", items |-> 3, value |-> 5,
              from |-> Sender, to |-> Receiver]
    /\ red_out.runs[1].request[1].contract_address # ""
    /\ red_out.runs[1].assessed[1].risk_score = 166

\* the categories of the last assessment that have its highest score: those
\* no other category's score is greater than, as floats
HighestScored ==
    LET risk_components == engine.last.details.risk_components
    IN { c \in DOMAIN risk_components :
             \A d \in DOMAIN risk_components :
                 ~score_greater(risk_components[d], risk_components[c]) }

\* the first category of a priority order that is in a set of categories
RECURSIVE FirstOf(_, _, _)
FirstOf(order, categories, i) ==
    IF i >= Len(order) THEN order[Len(order)]
    ELSE IF order[i] \in categories THEN order[i]
    ELSE FirstOf(order, categories, i + 1)

\* C17: the primary category of an assessment is an invoked category of
\* highest score, and among several of highest score the first in the order
\* financial > reputation > behavioral > historical > approval.
C17_PrimaryCategoryByPriority ==
    (engine.last # None /\ engine.input.processed_event # None) =>
        engine.last.risk_category =
            FirstOf(<< "financial_impact", "reputation_risk", "behavioral_anomaly",
                       "historical_context", "approval_risk" >>, HighestScored, 1)

\* What the code computes: among several categories of highest score, the
\* first in the order the components were filled in, financial > behavioral
\* > reputation > historical > approval.
C17_PrimaryCategoryByInsertionOrder ==
    (engine.last # None /\ engine.input.processed_event # None) =>
        engine.last.risk_category = FirstOf(RiskCategory, HighestScored, 1)

\* A transfer of 5 tokens without sender was assessed: behavioural,
\* reputation and historical analysis share the highest score 0.3 and the
\* primary category is behavioral_anomaly.
C17_TieGoesToBehavioral ==
    /\ engine.last # None
    /\ engine.input.processed_event # None
    /\ {"behavioral_anomaly", "reputation_risk"} \subseteq HighestScored
    /\ "financial_impact" \notin HighestScored
    /\ engine.last.risk_category = "behavioral_anomaly"

\* the behavioural analysis of the event a fresh engine was called with
\* raises: the sender's history makes _calculate_anomaly_score read
\* value_ratio before it is bound
BehaviouralAnalysisRaises ==
    /\ deployment = "risk_engine"
    /\ engine.last # None
    /\ engine.input.processed_event # None
    /\ engine.input.processed_event.parsed_data.from_address # ""
    /\ LET event == engine.input.processed_event
           h == get_historical_behavior(engine_init, event.parsed_data.from_address,
                                        engine.input.env.history, engine.input.at)
       IN calculate_anomaly_score(h.data, amount_or_zero(event),
                                  event.contract_address).raised

\* the other categories of the last assessment have the results their
\* analyzers give on their own for the same event and provider answers, and
\* the behavioural category has score 0.3 and confidence 0.3
OthersUntouchedBehaviouralAtDefault ==
    LET event == engine.input.processed_event
        env == engine.input.env
        at == engine.input.at
        risk_components == engine.last.details.risk_components
        fetched == get_historical_behavior(engine_init, event.parsed_data.from_address,
                                           env.history, at).eng
    IN /\ engine.last # assessment_error
       /\ risk_components["behavioral_anomaly"].score = 300
       /\ risk_components["behavioral_anomaly"].confidence = 300
       /\ risk_components["financial_impact"]
              = analyze_financial_impact(engine_init, event, env, at).risk
       /\ risk_components["reputation_risk"]
              = assess_reputation_risk(engine_init, event, env, at).risk
       /\ risk_components["historical_context"]
              = analyze_historical_context(fetched, event, env, at).risk
       /\ event.event_type = "Approval" =>
              risk_components["approval_risk"] = analyze_approval_risk(event)

\* C18: when one factor analyzer fails during an assessment, here the
\* behavioural one, an assessment is still returned, the other categories
\* have the results they have without the failure, the failed category has
\* score 0.3 and confidence 0.3, and the factors of the assessment include
\* the tag "<category>_analysis_error" of the failed category.
C18_FailureIsolatedAndTagged ==
    BehaviouralAnalysisRaises =>
        /\ OthersUntouchedBehaviouralAtDefault
        /\ "behavioral_anomaly_analysis_error" \in engine.last.factors

\* What the code does: the same, but the factor it records is the text
\* 'Analysis error: ' followed by the exception's message, which names no
\* category, and no factor ends in _analysis_error.
C18_FailureIsolatedUntagged ==
    BehaviouralAnalysisRaises =>
        /\ OthersUntouchedBehaviouralAtDefault
        /\ engine.last.details.risk_components["behavioral_anomaly"].factors
               = { "Analysis error: cannot access local variable 'value_ratio' where it is not associated with a value" }
        /\ engine.last.details.risk_components["behavioral_anomaly"].factors
               \subseteq engine.last.factors
        /\ "behavioral_anomaly_analysis_error" \notin engine.last.factors

\* An event whose sender has a single transaction of value 0 was assessed:
\* the behavioural analysis raised and the assessment has no
\* behavioral_anomaly_analysis_error factor.
C18_BehaviouralFailureWithoutTag ==
    /\ BehaviouralAnalysisRaises
    /\ engine.input.env.history.transaction_count = 1
    /\ "behavioral_anomaly_analysis_error" \notin engine.last.factors

\* the value a cache entry holds, by the cache read that looks at it
StoredValue(read) ==
    IF read.cache = "price" THEN read.stored.price
    ELSE IF read.cache = "usd_value" THEN read.stored.usd_value
    ELSE IF read.cache = "risk_data" THEN read.stored.risk_data
    ELSE read.stored.data

\* C19: every cache read of the engine (USD value, token price, sender's
\* risk data, reputation, history) returns the stored entry only when the
\* entry is there and its age, the time of the read minus the time it was
\* stored, is less than CACHE_TTL; a read that finds no entry, or one whose
\* age is CACHE_TTL or more, is a miss and returns what was computed from
\* the provider's answer (for a price the provider does not give, 1.0).
C19_CacheReadsRespectTimeToLive ==
    \A i \in 1..Len(engine.reads) :
        LET read == engine.reads[i]
            live == read.stored # None /\ read.at - read.stored.timestamp < CACHE_TTL
        IN /\ read.hit <=> live
           /\ live => read.returned = StoredValue(read)
           /\ ~live =>
                  read.returned =
                      IF read.cache = "price" /\ read.provided = NoValue
                      THEN 1 ELSE read.provided

\* A price stored CACHE_TTL seconds before was read: the read was a miss,
\* and the value returned is not the stored one.
C19_Witness ==
    \E i \in 1..Len(engine.reads) :
        LET read == engine.reads[i]
        IN /\ read.cache = "price"
           /\ read.stored # None
           /\ read.at - read.stored.timestamp = CACHE_TTL
           /\ ~read.hit
           /\ read.returned # read.stored.price

\* A history stored CACHE_TTL - 1 seconds before was read and returned from
\* the cache.
C19_WitnessHit ==
    \E i \in 1..Len(engine.reads) :
        LET read == engine.reads[i]
        IN /\ read.cache = "historical"
           /\ read.stored # None
           /\ read.at - read.stored.timestamp = CACHE_TTL - 1
           /\ read.hit
           /\ read.returned = read.stored.data

\* C21: for every Approval event the engine assessed, the approval_risk
\* component has confidence 0.8 and its score is 0.9 with the factor
\* UNLIMITED_APPROVAL when the approved amount is above 10**30 (as 2**256 - 1
\* is), 0.7 when it is above 10**24, and 0.3 in every other case.
C21_ApprovalRiskByAmount ==
    ( /\ engine.last # None
      /\ engine.input.processed_event # None
      /\ engine.input.processed_event.event_type = "Approval" ) =>
        LET approval_amount == engine.input.processed_event.parsed_data.approval_amount
            approval_risk == engine.last.details.risk_components["approval_risk"]
        IN /\ approval_risk.confidence = 800
           /\ approval_risk.score =
                  IF approval_amount > 1000000 THEN 900
                  ELSE IF approval_amount > 1 THEN 700
                  ELSE 300
           /\ approval_amount > 1000000 => "UNLIMITED_APPROVAL" \in approval_risk.factors

\* What the engine does: the rule of C21 for an Approval event whose
\* parsed_data has an approval_amount; score 0.0 with no factor, still with
\* confidence 0.8, for one whose parsed_data has none.
C21_RuleWhenAmountPresent ==
    ( /\ engine.last # None
      /\ engine.input.processed_event # None
      /\ engine.input.processed_event.event_type = "Approval" ) =>
        LET approval_amount == engine.input.processed_event.parsed_data.approval_amount
            approval_risk == engine.last.details.risk_components["approval_risk"]
        IN /\ approval_risk.confidence = 800
           /\ approval_risk.score =
                  IF approval_amount = NoValue THEN 0
                  ELSE IF approval_amount > 1000000 THEN 900
                  ELSE IF approval_amount > 1 THEN 700
                  ELSE 300
           /\ approval_risk.factors =
                  IF approval_amount = NoValue THEN {}
                  ELSE IF approval_amount > 1000000 THEN {"UNLIMITED_APPROVAL"}
                  ELSE IF approval_amount > 1 THEN {"LARGE_APPROVAL"}
                  ELSE {"NORMAL_APPROVAL"}

\* An Approval event without an approved amount was assessed and its
\* approval_risk score is 0.0.
C21_NoAmountScoresZero ==
    /\ engine.last # None
    /\ engine.input.processed_event # None
    /\ engine.input.processed_event.event_type = "Approval"
    /\ engine.input.processed_event.parsed_data.approval_amount = NoValue
    /\ engine.last.details.risk_components["approval_risk"].score = 0

\* An approval of exactly 10**30 was assessed: large, not unlimited.
C21_WitnessBoundary ==
    /\ engine.last # None
    /\ engine.input.processed_event # None
    /\ engine.input.processed_event.event_type = "Approval"
    /\ engine.input.processed_event.parsed_data.approval_amount = 1000000
    /\ engine.last.details.risk_components["approval_risk"].score = 700

\* the financial_impact component the engine would return, new and at the
\* same moment with the same answers of the providers, for the event that
\* differs from the assessed one only in its receiver
FinancialImpactWithReceiver(to_address) ==
    analyze_financial_impact(
        engine_init,
        [engine.input.processed_event EXCEPT !.parsed_data.to_address = to_address],
        engine.input.env, engine.input.at).risk

\* a new engine has assessed a transfer to the zero address
TransferToZeroAddressAssessed ==
    /\ deployment = "risk_engine"
    /\ engine.last # None
    /\ engine.input.processed_event # None
    /\ engine.input.processed_event.event_type = "Transfer"
    /\ engine.input.processed_event.parsed_data.to_address = ZeroAddress

\* C22: the financial_impact score of a transfer to the zero address is
\* 0.2 above, capped at 1.0, the score of the transfer that differs from it
\* only in going to another receiver.
C22_ZeroAddressAddsToFinancialImpact ==
    TransferToZeroAddressAssessed =>
        engine.last.details.risk_components["financial_impact"].score
            = Min(1000, FinancialImpactWithReceiver(Receiver).score + 200)

\* What the engine does: the financial_impact component of a transfer is
\* the same whoever receives it.
C22_FinancialImpactIgnoresReceiver ==
    TransferToZeroAddressAssessed =>
        engine.last.details.risk_components["financial_impact"]
            = FinancialImpactWithReceiver(Receiver)

\* A transfer of 5 tokens at 3000 dollars to the zero address was assessed:
\* its financial_impact score is 0.6, as for any other receiver.
C22_ZeroAddressScoredAlike ==
    /\ TransferToZeroAddressAssessed
    /\ engine.input.processed_event.parsed_data.amount = 5
    /\ engine.input.env.price = 3000
    /\ engine.last.details.risk_components["financial_impact"].score = 600
    /\ FinancialImpactWithReceiver(Receiver).score = 600

\* send_and_receive timing out
timed_out == [kind |-> "timeout", msg |-> None]

\* the response analyze_events_endpoint returns for the events of run r when
\* it is entered at second t and its event analysis delegation times out
P2TimedOutResponseAt(r, t) ==
    after_event_analyzer(delegate_post("event_analyzer", agent_state, timed_out),
                         p2[r].events, <<"req", t, Len(p2[r].events)>>).response

\* the response process_blockchain_event returns for the event of run h
\* when both delegations time out, the run has the given request_id and
\* the clock gives processing_time at the end
HostedTimedOutResponse(h, request_id, processing_time) ==
    hosted_after_risk_assessor(
        timed_out, hosted[h].event_input, request_id,
        hosted_after_event_analyzer(timed_out, hosted[h].event_input,
                                    request_id).analysis_response,
        processing_time)

\* run r of the phase-2 coordinator has returned after its event analysis
\* delegation timed out
P2RunTimedOut(r) ==
    /\ deployment = "phase2"
    /\ p2[r].pc = "done"
    /\ P2Ev(r).got = "timeout"

\* run h of the hosted coordinator has returned after both its delegations
\* timed out
HostedRunTimedOut(h) ==
    /\ deployment = "hosted"
    /\ hosted[h].pc = "done"
    /\ HostedEv(h).got = "timeout"
    /\ HostedRisk(h).got = "timeout"

\* C24: with workers that time out, the response of a run is the response
\* of any other run on the same event: it is the same whatever the second
\* the run was entered at, whatever request_id it generated and whatever
\* time it took.
C24_TimedOutResponseDependsOnEventOnly ==
    /\ \A r \in RunsP2 :
           P2RunTimedOut(r) =>
               \A t \in 0..MaxTime : p2[r].response = P2TimedOutResponseAt(r, t)
    /\ \A h \in RunsHosted :
           HostedRunTimedOut(h) =>
               \A request_id \in {<<"uuid", h, 0>>, <<"uuid", h, 1>>},
                  processing_time \in ProcessingTimes :
                   hosted[h].response
                       = HostedTimedOutResponse(h, request_id, processing_time)

\* What the coordinators do: the phase-2 response is the error response
\* that carries the request_id of the run, made of the second the run was
\* entered at and the number of events; the hosted response is a function
\* of the event but for processing_time_ms, and has no request_id in it.
C24_TimedOutResponseButForIdAndTime ==
    /\ \A r \in RunsP2 :
           P2RunTimedOut(r) =>
               /\ p2[r].response
                      = create_error_response(p2[r].request_id, "Event analysis failed")
               /\ \E t \in 0..MaxTime :
                      /\ p2[r].request_id = <<"req", t, Len(p2[r].events)>>
                      /\ p2[r].response = P2TimedOutResponseAt(r, t)
    /\ \A h \in RunsHosted :
           HostedRunTimedOut(h) =>
               /\ hosted[h].response.processing_time_ms \in ProcessingTimes
               /\ \A request_id \in {<<"uuid", h, 0>>, <<"uuid", h, 1>>} :
                      hosted[h].response =
                          HostedTimedOutResponse(h, request_id,
                                                 hosted[h].response.processing_time_ms)

\* A phase-2 run entered at second 1 timed out: its response differs from
\* the one the same batch gets at second 0.
C24_ResponseCarriesTimeOfRun ==
    \E r \in RunsP2 :
        /\ P2RunTimedOut(r)
        /\ p2[r].response.acknowledgment.request_id = <<"req", 1, Len(p2[r].events)>>
        /\ p2[r].response # P2TimedOutResponseAt(r, 0)

\* A hosted run whose delegations both timed out returned the fallback
\* response with one of the processing times.
C24_HostedResponseCarriesDuration ==
    \E h \in RunsHosted :
        /\ HostedRunTimedOut(h)
        /\ hosted[h].response.risk_assessment.risk_level = "MEDIUM"
        /\ hosted[h].response.processing_time_ms = 60007

\* C25: a step of the phase-2 coordinator that changes a worker's health
\* status is a step of the health check of startup (one that goes on with
\* the probes while the startup handler has not ended), so a delegation
\* that ends in timeout or error leaves every status as it was; and a batch
\* that comes after another is delegated to the event analyzer exactly when
\* the health check left that worker healthy, however the earlier batch
\* ended.
C25_DelegationsIndependent ==
    /\ [][ \/ agent_state'.agent_health = agent_state.agent_health
           \/ ~started /\ probed' # probed ]_vars
    /\ [](\A r \in RunsP2 :
             (p2[r].pc # "idle" /\ p2[r].earlier # None) =>
                 /\ P2Ev(r).seen_health = agent_state.agent_health
                 /\ P2Ev(r).sends > 0
                        <=> agent_state.agent_health["event_analyzer"] = "healthy")

\* A batch whose event analysis delegation timed out was followed by
\* another, which was delegated to the event analyzer as well.
C25_Witness ==
    /\ deployment = "phase2_sequence"
    /\ p2[1].earlier # None
    /\ p2[1].earlier.status = "timeout"
    /\ agent_state.communication_stats.timeouts = 1
    /\ agent_state.agent_health["event_analyzer"] = "healthy"
    /\ P2Ev(1).sends = 1

\* A batch whose event analysis delegation raised was followed by another,
\* whose delegation timed out: both workers are healthy as before.
C25_WitnessErrorThenTimeout ==
    /\ deployment = "phase2_sequence"
    /\ p2[1].pc = "done"
    /\ p2[1].earlier # None
    /\ p2[1].earlier.status = "error"
    /\ P2Ev(1).status = "timeout"
    /\ agent_state.agent_health
           = [event_analyzer |-> "healthy", risk_assessor |-> "healthy"]

\* C26: two distinct batches never carry the same request_id, whether
\* their runs overlap or follow one another.
C26_RequestIdUniquePerBatch ==
    /\ \A r1, r2 \in RunsP2 :
           (r1 # r2 /\ p2[r1].pc # "idle" /\ p2[r2].pc # "idle") =>
               p2[r1].request_id # p2[r2].request_id
    /\ \A r \in RunsP2 :
           (p2[r].pc # "idle" /\ p2[r].earlier # None) =>
               p2[r].request_id # p2[r].earlier.request_id

\* What the coordinator does: the request_id of a run is made of the
\* second the request arrived in and the number of its events, nothing
\* else, so two batches have the same request_id exactly when they have
\* as many events and arrive in the same second.
C26_RequestIdFromSecondAndCount ==
    \A r \in RunsP2 :
        p2[r].pc # "idle" =>
            /\ \E t \in 0..now : p2[r].request_id = <<"req", t, Len(p2[r].events)>>
            /\ p2[r].earlier # None =>
                   /\ p2[r].earlier.request_id[2] <= p2[r].request_id[2]
                   /\ p2[r].earlier.request_id[3] = Len(p2[r].earlier.events)

\* Two batches of one event each, a Transfer and then an Approval, arrived
\* in the same second: they have the same request_id.
C26_SameSecondSameCount ==
    /\ deployment = "phase2_sequence"
    /\ p2[1].pc # "idle"
    /\ p2[1].earlier # None
    /\ p2[1].earlier.events = <<"Transfer">>
    /\ p2[1].events = <<"Approval">>
    /\ p2[1].request_id = p2[1].earlier.request_id

\* the reads of the cache of USD values that the last assessment was served
\* from the cache
ServedUsdValues ==
    IF engine.last = None THEN {}
    ELSE { engine.reads[i] : i \in { j \in 1..Len(engine.reads) :
                                        /\ engine.reads[j].cache = "usd_value"
                                        /\ engine.reads[j].hit } }

\* C27: a USD value the engine serves was derived from a price CoinGecko
\* gave less than one time to live before the read.
C27_UsdValueFromPriceWithinTimeToLive ==
    \A read \in ServedUsdValues :
        read.stored.price_fetched_at # NoValue =>
            read.at - read.stored.price_fetched_at < CACHE_TTL

\* What the engine does: the entry of a USD value is stamped with the
\* moment it was computed, from a price that may itself have come from the
\* cache, and is served for one time to live from then on: the price behind
\* a served value is less than two times to live old.
C27_UsdValueFromPriceWithinTwoTimesToLive ==
    \A read \in ServedUsdValues :
        /\ read.at - read.stored.timestamp < CACHE_TTL
        /\ read.stored.price_fetched_at # NoValue =>
               /\ read.stored.timestamp - read.stored.price_fetched_at < CACHE_TTL
               /\ read.at - read.stored.price_fetched_at < 2 * CACHE_TTL

\* A USD value was served 598 seconds after its price came from CoinGecko:
\* it was computed at second 299 from the cached price of second 0.
C27_PriceOlderThanTimeToLive ==
    \E read \in ServedUsdValues :
        /\ read.stored.price_fetched_at = 0
        /\ read.stored.timestamp = CACHE_TTL - 1
        /\ read.at = 2 * (CACHE_TTL - 1)

\* the factors of the reputation data _check_address_reputation returns
\* when GoPlus gave no answer (lines 662-670)
FailedLookupFactors == {"API error: 500", "Reputation check failed: timed out"}

\* the entries of the two caches that hold a value made up because a
\* provider gave no answer: a USD value computed from the price 1.0 that
\* stands in for CoinGecko's, the price 1.0 itself, the reputation data of
\* a failed GoPlus request, the empty history of a failed Etherscan request
DegradedEntries ==
    { k \in PriceKeys :
          /\ engine.price_cache[k] # None
          /\ IF Len(k) = 2
             THEN engine.price_cache[k].price_fetched_at = NoValue
             ELSE engine.price_cache[k].price = 1 }
    \cup
    { k \in ReputationKeys :
          /\ engine.reputation_cache[k] # None
          /\ IF Len(k) = 1
             THEN engine.reputation_cache[k].risk_data.factors
                      \cap FailedLookupFactors # {}
             ELSE IF k[1] = "reputation"
             THEN engine.reputation_cache[k].data.factors \cap FailedLookupFactors # {}
             ELSE engine.reputation_cache[k].data = no_history }

\* the cache reads of the last assessment that were answered from the cache
ServedReads ==
    IF engine.last = None THEN {}
    ELSE { engine.reads[i] : i \in { j \in 1..Len(engine.reads) : engine.reads[j].hit } }

\* a cache read that was answered with a value made up for a provider that
\* gave no answer
ServesDegradedValue(read) ==
    \/ read.cache = "usd_value" /\ read.stored.price_fetched_at = NoValue
    \/ read.cache = "price" /\ read.stored.price = 1
    \/ /\ read.cache = "risk_data"
       /\ read.stored.risk_data.factors \cap FailedLookupFactors # {}
    \/ /\ read.cache = "reputation"
       /\ read.stored.data.factors \cap FailedLookupFactors # {}
    \/ read.cache = "historical" /\ read.stored.data = no_history

\* C28: a value made up because a provider gave no answer (failed
\* reputation check, fallback price, empty history) is never stored in a
\* cache, and no assessment is served such a value from a cache.
C28_DegradedValueNeverCached ==
    /\ DegradedEntries = {}
    /\ \A read \in ServedReads : ~ServesDegradedValue(read)

\* What the engine does: the lookups themselves store only what a provider
\* gave (the entries of the price, of f"reputation_{address}" and of
\* f"historical_{address}"), but their callers store what the lookup
\* returned, made up or not: the USD value under f"{token}_{amount}" (lines
\* 254-257) and the risk data under the sender's address (lines 561-565).
C28_OnlyCallersCacheDegradedValues ==
    /\ DegradedEntries \subseteq {<<Token, a>> : a \in Amounts} \cup {<<Sender>>}
    /\ \A read \in ServedReads :
           ServesDegradedValue(read) => read.cache \in {"usd_value", "risk_data"}

\* GoPlus and CoinGecko gave no answer during one assessment; the next one
\* for the same sender and amount, during which both would have answered,
\* was served the made-up reputation data and USD value from the cache.
C28_DegradedValueServedAgain ==
    /\ deployment = "risk_engine_service"
    /\ engine.last # None
    /\ engine.input.env.reputation.status = "ok"
    /\ engine.input.env.price # NoValue
    /\ \E read \in ServedReads :
           /\ read.cache = "risk_data"
           /\ read.stored.risk_data = [score |-> 200, confidence |-> 300,
                                       factors |-> {"API error: 500"}]
    /\ \E read \in ServedReads :
           /\ read.cache = "usd_value"
           /\ read.stored.price_fetched_at = NoValue
           /\ read.returned = engine.input.processed_event.parsed_data.amount

\* "low_risk_events" of GET /stats (phase2_orchestrator.py:436)
low_risk_events(st) == st.events_processed - st.high_risk_events - st.critical_events

SenderAssessed ==
    /\ deployment = "risk_engine"
    /\ engine.last # None
    /\ engine.input.processed_event # None
    /\ engine.input.processed_event.parsed_data.from_address # ""

\* the summary of the sender's history the assessed event was scored against
AssessedHistory ==
    get_historical_behavior(engine_init,
                            engine.input.processed_event.parsed_data.from_address,
                            engine.input.env.history, engine.input.at).data

\* the history is not empty and the average value of its transactions is zero
ZeroAverage(historical) ==
    historical.transaction_count > 0 /\ historical.total_value = 0

\* The sum the five steps of _calculate_anomaly_score describe (lines
\* 429-489), capped at 1.0, in which a step that needs the ratio of the
\* current value to the historical average adds nothing when there is no
\* ratio.
ContributionsThatApply(historical, current_value, current_contract) ==
    LET ratio == historical.transaction_count > 0 /\ historical.total_value > 0
        exceeds(k) == ratio /\ value_ratio_exceeds(historical, current_value, k)
        value == IF exceeds(1000) THEN 900
                 ELSE IF exceeds(100) THEN 700
                 ELSE IF exceeds(10) THEN 500
                 ELSE IF exceeds(2) THEN 200
                 ELSE 0
        contract == IF current_contract # "" /\ current_contract \notin historical.contracts
                    THEN IF historical.transaction_count > 0 THEN 300 ELSE 100
                    ELSE 0
        frequency == IF frequency_exceeds(historical, 10) /\ exceeds(10) THEN 200 ELSE 0
        age == IF ~historical.first_seen THEN 0
               ELSE IF historical.account_age_days < 1
               THEN IF current_value > 1 THEN 400 ELSE 0
               ELSE IF historical.account_age_days < 7
               THEN IF current_value > 10 THEN 300 ELSE 0
               ELSE 0
        count == IF historical.transaction_count = 0
                 THEN IF current_value > 1 THEN 500 ELSE 0
                 ELSE IF historical.transaction_count < 5 /\ exceeds(50) THEN 300
                 ELSE 0
    IN Min(value + contract + frequency + age + count, 1000)

\* the behavioural result of the last assessment
BehaviouralResult == engine.last.details.risk_components["behavioral_anomaly"]

\* the behavioural result is what the except clause of
\* _detect_behavioral_anomalies returns (lines 335-337)
BehaviouralAtErrorDefault ==
    /\ BehaviouralResult.score = 300
    /\ BehaviouralResult.confidence = 300
    /\ \E f \in BehaviouralResult.factors : SubSeq(f, 1, 15) = "Analysis error:"

\* C30: for every summary of the sender's history, one whose average value
\* is zero included, the behavioural score is the capped sum of the
\* contributions that apply, a missing value ratio adding nothing, and the
\* result is not the analysis-error default (score 0.3, confidence 0.3).
C30_ScoreIsSumOfContributions ==
    SenderAssessed =>
        /\ BehaviouralResult.score
               = ContributionsThatApply(AssessedHistory,
                                        amount_or_zero(engine.input.processed_event),
                                        engine.input.processed_event.contract_address)
        /\ ~BehaviouralAtErrorDefault

\* What the code does: the score is that sum unless the history has
\* between one and four transactions, or more than ten a day, and an
\* average value of zero; then value_ratio is read before it is bound
\* (lines 466, 486) and the result is the analysis-error default.
C30_ZeroAverageFallsToDefault ==
    SenderAssessed =>
        IF /\ ZeroAverage(AssessedHistory)
           /\ \/ AssessedHistory.transaction_count < 5
              \/ frequency_exceeds(AssessedHistory, 10)
        THEN BehaviouralAtErrorDefault
        ELSE /\ ~BehaviouralAtErrorDefault
             /\ BehaviouralResult.score
                    = ContributionsThatApply(AssessedHistory,
                                             amount_or_zero(engine.input.processed_event),
                                             engine.input.processed_event.contract_address)

\* A transfer of 400000 tokens was assessed whose sender has one earlier
\* transaction, of value 0, to the same token: no contribution applies, the
\* sum is 0, and the behavioural result is the analysis-error default.
C30_ZeroAverageAssessed ==
    /\ SenderAssessed
    /\ ZeroAverage(AssessedHistory)
    /\ engine.input.processed_event.parsed_data.amount = 400000
    /\ ContributionsThatApply(AssessedHistory, 400000,
                              engine.input.processed_event.contract_address) = 0
    /\ BehaviouralAtErrorDefault

====
